---- MODULE Spec2Model ----
(***************************************************************************)
(* Model of spacemouse-desktop.c: the profile store and its loader, the    *)
(* control-socket command handler, the poll()-based main loop with its     *)
(* signal flags, the axis router with the scroll accumulator and the       *)
(* desktop-switch cooldown.                                                 *)
(*                                                                         *)
(* C strings are TLA+ strings (Len, SubSeq and \o apply to them).          *)
(* A double is a fixed-point integer: the value x stands for x / UNIT.     *)
(* The array g_profiles is a sequence of g_profile_count profiles; C       *)
(* indices are kept 0-based, so profile i is g_profiles[i + 1].            *)
(***************************************************************************)
EXTENDS Integers, Sequences, FiniteSets, TLC

VARIABLES
  pc,               \* position of main() in its loop
  g_running,        \* volatile sig_atomic_t g_running
  g_reload,         \* volatile sig_atomic_t g_reload
  g_profiles,       \* g_profiles[0 .. g_profile_count-1]
  g_active_profile, \* index of the active profile (0-based)
  g_uinput_fd,      \* >= 0 when /dev/uinput was opened
  g_dbus,           \* TRUE when the session bus connection is not NULL
  cmd_fd,           \* >= 0 when the command socket is listening
  sacc,             \* struct scroll_acc in main()
  last_dswitch,     \* long long last_dswitch in main()
  desktop_shown,    \* int desktop_shown in main()
  fds,              \* revents of the last poll(): [dev, cmd]
  ev,               \* the spnav_event being routed
  slot,             \* loop index i of the six-slot loop
  clock,            \* CLOCK_MONOTONIC in milliseconds
  config_file,      \* the document json_object_from_file() read at the last load
  conn,             \* the client connection served by the last step
  kwin_req,         \* desktop action requested by the last step
  dbus_sent,        \* message the last step handed to libdbus for sending
  uinput_ev,        \* <<dx, dy, dz>> the last step wrote to uinput
  iter,             \* history: what this loop iteration saw of the reload flag
  fired,            \* history: the last desktop-switch triggers, newest last
  acc_hist,         \* history of scroll_acc_consume: the value last consumed,
                    \* the integer last returned, and the sum of the deltas
                    \* added so far minus the sum of the integers returned
  shaped            \* history of apply_curve called on its own: the
                    \* arguments of the last call and the value it returned

vars == <<pc, g_running, g_reload, g_profiles, g_active_profile, g_uinput_fd,
          g_dbus, cmd_fd, sacc, last_dswitch, desktop_shown, fds, ev, slot,
          clock, config_file, conn, kwin_req, dbus_sent, uinput_ev, iter, fired,
          acc_hist, shaped>>

(***************************************************************************)
(* Program constants                                                       *)
(***************************************************************************)
MAX_PROFILES == 32
CMD_BUF_SIZE == 256
NAME_SIZE == 64
MAX_RAW == 350
NUM_AXES == 6
NUM_BUTTONS == 16
DEFAULT_DEADZONE == 15
DEFAULT_SCROLL_SPEED == 3
DEFAULT_SCROLL_EXP == 2
DEFAULT_ZOOM_SPEED == 2
DEFAULT_DSWITCH_THRESH == 200
DEFAULT_DSWITCH_COOL_MS == 500
DEFAULT_SENSITIVITY == 1
INT_MAX == 2147483647
INT_MIN == -INT_MAX - 1

(***************************************************************************)
(* Bounds of the model                                                     *)
(***************************************************************************)
\* resolution of the fixed-point stand-in for double: 1.0 is UNIT
UNIT == 2

Min(a, b) == IF a < b THEN a ELSE b
Abs(x) == IF x < 0 THEN -x ELSE x

(***************************************************************************)
(* C string helpers                                                        *)
(***************************************************************************)
CharAt(s, i) == SubSeq(s, i, i)

UPPER == "ABCDEFGHIJKLMNOPQRSTUVWXYZ"
LOWER == "abcdefghijklmnopqrstuvwxyz"

tolower(c) ==
  IF \E k \in 1..Len(UPPER) : CharAt(UPPER, k) = c
    THEN CharAt(LOWER, CHOOSE k \in 1..Len(UPPER) : CharAt(UPPER, k) = c)
    ELSE c

\* strcasecmp(a, b) == 0
strcasecmp_eq(a, b) ==
  /\ Len(a) = Len(b)
  /\ \A k \in 1..Len(a) : tolower(CharAt(a, k)) = tolower(CharAt(b, k))

\* strcmp(a, b) == 0
strcmp_eq(a, b) == a = b

\* strncmp(a, b, n) == 0 for a literal b of length n
strncmp_eq(a, b, n) == Len(a) >= n /\ SubSeq(a, 1, n) = SubSeq(b, 1, n)

\* snprintf(dst, size, "%s", s): at most size-1 bytes are stored
snprintf(size, s) == SubSeq(s, 1, Min(Len(s), size - 1))

\* strncat(dst, src, n): appends at most n bytes of src
strncat(dst, src, n) == dst \o SubSeq(src, 1, Min(Len(src), n))

DIGITS == "0123456789"
IsDigit(c) == \E k \in 1..10 : CharAt(DIGITS, k) = c
DigitVal(c) == (CHOOSE k \in 1..10 : CharAt(DIGITS, k) = c) - 1

RECURSIVE ParseDigits(_, _, _)
ParseDigits(s, k, acc) ==
  IF k <= Len(s) /\ IsDigit(CharAt(s, k))
    THEN ParseDigits(s, k + 1, acc * 10 + DigitVal(CharAt(s, k)))
    ELSE acc

RECURSIVE SkipSpaces(_, _)
SkipSpaces(s, k) ==
  IF k <= Len(s) /\ CharAt(s, k) \in {" ", "\t", "\n", "\r"}
    THEN SkipSpaces(s, k + 1) ELSE k

\* atoi(s): leading white space, an optional sign, then digits; 0 if none
atoi(s) ==
  LET k == SkipSpaces(s, 1)
      neg == k <= Len(s) /\ CharAt(s, k) = "-"
      j == IF k <= Len(s) /\ CharAt(s, k) \in {"-", "+"} THEN k + 1 ELSE k
      n == ParseDigits(s, j, 0)
  IN IF neg THEN -n ELSE n

(***************************************************************************)
(* enum axis_action, enum btn_action                                       *)
(***************************************************************************)
ACT_NONE == "ACT_NONE"
ACT_SCROLL_H == "ACT_SCROLL_H"
ACT_SCROLL_V == "ACT_SCROLL_V"
ACT_ZOOM == "ACT_ZOOM"
ACT_DESKTOP_SWITCH == "ACT_DESKTOP_SWITCH"
BTNACT_NONE == "BTNACT_NONE"
BTNACT_OVERVIEW == "BTNACT_OVERVIEW"
BTNACT_SHOW_DESKTOP == "BTNACT_SHOW_DESKTOP"

\* A pointer that may be NULL: <<>> is NULL, <<x>> points to x
NULL == <<>>
Ptr(x) == <<x>>
Deref(p) == p[1]

parse_axis_action(s) ==
  IF s = NULL THEN ACT_NONE
  ELSE IF strcmp_eq(Deref(s), "scroll_h") THEN ACT_SCROLL_H
  ELSE IF strcmp_eq(Deref(s), "scroll_v") THEN ACT_SCROLL_V
  ELSE IF strcmp_eq(Deref(s), "zoom") THEN ACT_ZOOM
  ELSE IF strcmp_eq(Deref(s), "desktop_switch") THEN ACT_DESKTOP_SWITCH
  ELSE ACT_NONE

parse_btn_action(s) ==
  IF s = NULL THEN BTNACT_NONE
  ELSE IF strcmp_eq(Deref(s), "overview") THEN BTNACT_OVERVIEW
  ELSE IF strcmp_eq(Deref(s), "show_desktop") THEN BTNACT_SHOW_DESKTOP
  ELSE BTNACT_NONE

(***************************************************************************)
(* JSON values as json-c presents them.  A value is a record [t, v]; an    *)
(* object's v is the sequence of its <<key, value>> members in document    *)
(* order (json-c iterates in insertion order, keys are unique).            *)
(***************************************************************************)
JInt(n) == [t |-> "int", v |-> n]
JDbl(x) == [t |-> "double", v |-> x]
JBool(b) == [t |-> "boolean", v |-> b]
JStr(s) == [t |-> "string", v |-> s]
JObj(members) == [t |-> "object", v |-> members]
JNull == [t |-> "null", v |-> 0]

\* json_object_object_get_ex(obj, key, &val): found?
json_has(obj, key) ==
  /\ obj.t = "object"
  /\ \E k \in 1..Len(obj.v) : obj.v[k][1] = key

\* json_object_object_get_ex(obj, key, &val): the value stored in val
json_get(obj, key) ==
  obj.v[CHOOSE k \in 1..Len(obj.v) : obj.v[k][1] = key][2]

\* (int32_t) saturation done by json_object_get_int
ClampInt(n) == IF n > INT_MAX THEN INT_MAX ELSE IF n < INT_MIN THEN INT_MIN ELSE n

\* truncation toward zero of the fixed-point value x
Trunc(x) == IF x >= 0 THEN x \div UNIT ELSE -((-x) \div UNIT)

json_object_get_int(val) ==
  CASE val.t = "int" -> ClampInt(val.v)
    [] val.t = "double" -> ClampInt(Trunc(val.v))
    [] val.t = "boolean" -> IF val.v THEN 1 ELSE 0
    [] val.t = "string" -> ClampInt(atoi(val.v))
    [] OTHER -> 0

IsNumeral(s) ==
  /\ Len(s) > 0
  /\ \A k \in 1..Len(s) : IsDigit(CharAt(s, k)) \/ (k = 1 /\ Len(s) > 1 /\ CharAt(s, k) = "-")

json_object_get_double(val) ==
  CASE val.t = "double" -> val.v
    [] val.t = "int" -> val.v * UNIT
    [] val.t = "boolean" -> IF val.v THEN UNIT ELSE 0
    [] val.t = "string" -> IF IsNumeral(val.v) THEN atoi(val.v) * UNIT ELSE 0
    [] OTHER -> 0

\* json_bool is an int: 1 or 0
json_object_get_boolean(val) ==
  CASE val.t = "boolean" -> IF val.v THEN 1 ELSE 0
    [] val.t = "int" -> IF val.v # 0 THEN 1 ELSE 0
    [] val.t = "double" -> IF val.v # 0 THEN 1 ELSE 0
    [] val.t = "string" -> IF Len(val.v) # 0 THEN 1 ELSE 0
    [] OTHER -> 0

\* json_object_get_string: the string itself, NULL for null, and the JSON
\* text of any other value (never one of the action names)
json_object_get_string(val) ==
  CASE val.t = "string" -> Ptr(val.v)
    [] val.t = "null" -> NULL
    [] val.t = "int" -> Ptr(ToString(val.v))
    [] val.t = "boolean" -> Ptr(IF val.v THEN "true" ELSE "false")
    [] val.t = "double" -> Ptr(ToString(Trunc(val.v)) \o ".")
    [] OTHER -> Ptr("{ }")

(***************************************************************************)
(* struct config, struct profile                                           *)
(***************************************************************************)
Axes == 0..(NUM_AXES - 1)
Buttons == 0..(NUM_BUTTONS - 1)

\* config_defaults stopping after the memset
config_defaults_zeroed ==
  [deadzone |-> 0, scroll_speed |-> 0, scroll_exponent |-> 0, zoom_speed |-> 0,
   dswitch_threshold |-> 0, dswitch_cooldown_ms |-> 0,
   axis_map |-> [a \in Axes |-> ACT_NONE],
   btn_map |-> [b \in Buttons |-> BTNACT_NONE],
   invert_scroll_x |-> 0, invert_scroll_y |-> 0, sensitivity |-> 0]

config_defaults ==
  [deadzone |-> DEFAULT_DEADZONE,
   scroll_speed |-> DEFAULT_SCROLL_SPEED * UNIT,
   scroll_exponent |-> DEFAULT_SCROLL_EXP * UNIT,
   zoom_speed |-> DEFAULT_ZOOM_SPEED * UNIT,
   dswitch_threshold |-> DEFAULT_DSWITCH_THRESH,
   dswitch_cooldown_ms |-> DEFAULT_DSWITCH_COOL_MS,
   axis_map |-> [a \in Axes |->
                  CASE a = 0 -> ACT_SCROLL_H
                    [] a = 1 -> ACT_SCROLL_V
                    [] a = 2 -> ACT_ZOOM
                    [] a = 4 -> ACT_DESKTOP_SWITCH
                    [] OTHER -> ACT_NONE],
   btn_map |-> [b \in Buttons |->
                  CASE b = 0 -> BTNACT_OVERVIEW
                    [] b = 1 -> BTNACT_SHOW_DESKTOP
                    [] OTHER -> BTNACT_NONE],
   invert_scroll_x |-> 0,
   invert_scroll_y |-> 0,
   sensitivity |-> DEFAULT_SENSITIVITY * UNIT]

\* the keys of "axis_mapping", by slot
AxisKey(a) ==
  CASE a = 0 -> "tx" [] a = 1 -> "ty" [] a = 2 -> "tz"
    [] a = 3 -> "rx" [] a = 4 -> "ry" [] OTHER -> "rz"

\* the while loop over "button_mapping": members in order, a later member
\* for the same button overwrites an earlier one
RECURSIVE parse_button_mapping(_, _, _)
parse_button_mapping(members, k, btn_map) ==
  IF k > Len(members) THEN btn_map
  ELSE LET bnum == atoi(members[k][1])
           bval == members[k][2]
       IN parse_button_mapping(members, k + 1,
            IF bnum >= 0 /\ bnum < NUM_BUTTONS
              THEN [btn_map EXCEPT ![bnum] = parse_btn_action(json_object_get_string(bval))]
              ELSE btn_map)

\* the field-by-field part of parse_profile_obj: every key present in obj
\* overwrites the field of base.  (match_wm_class only fills p->wm_classes,
\* which nothing in this program reads back.)
\* json_object_iter_begin is given "button_mapping" as it is; every document
\* of this model gives it an object.
parse_fields(obj, base) ==
  LET IntField(key, old) ==
        IF json_has(obj, key) THEN json_object_get_int(json_get(obj, key)) ELSE old
      DblField(key, old) ==
        IF json_has(obj, key) THEN json_object_get_double(json_get(obj, key)) ELSE old
      BoolField(key, old) ==
        IF json_has(obj, key) THEN json_object_get_boolean(json_get(obj, key)) ELSE old
      amap == json_get(obj, "axis_mapping")
      bmap == json_get(obj, "button_mapping")
  IN [deadzone |-> IntField("deadzone", base.deadzone),
      scroll_speed |-> DblField("scroll_speed", base.scroll_speed),
      scroll_exponent |-> DblField("scroll_exponent", base.scroll_exponent),
      zoom_speed |-> DblField("zoom_speed", base.zoom_speed),
      dswitch_threshold |-> IntField("desktop_switch_threshold", base.dswitch_threshold),
      dswitch_cooldown_ms |-> IntField("desktop_switch_cooldown_ms", base.dswitch_cooldown_ms),
      invert_scroll_x |-> BoolField("invert_scroll_x", base.invert_scroll_x),
      invert_scroll_y |-> BoolField("invert_scroll_y", base.invert_scroll_y),
      sensitivity |-> DblField("sensitivity", base.sensitivity),
      axis_map |->
        [a \in Axes |->
           IF json_has(obj, "axis_mapping") /\ json_has(amap, AxisKey(a))
             THEN parse_axis_action(json_object_get_string(json_get(amap, AxisKey(a))))
             ELSE base.axis_map[a]],
      btn_map |->
        IF json_has(obj, "button_mapping") /\ bmap.t = "object"
          THEN parse_button_mapping(bmap.v, 1, base.btn_map)
          ELSE base.btn_map]

\* parse_profile_obj(obj, p, defaults): the resulting p->cfg.
\* defaults is NULL or Ptr(cfg): memcpy of *defaults, else config_defaults.
parse_profile_obj(obj, defaults) ==
  parse_fields(obj, IF defaults # NULL THEN Deref(defaults) ELSE config_defaults)

\* the loop over "profiles" without the test against MAX_PROFILES
RECURSIVE load_named_profiles_nocap(_, _, _)
load_named_profiles_nocap(members, k, profiles) ==
  IF k > Len(members) THEN profiles
  ELSE LET pname == members[k][1]
       IN load_named_profiles_nocap(members, k + 1,
            IF ~strcmp_eq(pname, "default")
              THEN Append(profiles,
                     [name |-> snprintf(NAME_SIZE, pname),
                      cfg |-> parse_profile_obj(members[k][2], Ptr(profiles[1].cfg))])
              ELSE profiles)

\* the while loop of config_load_all over the members of "profiles"
RECURSIVE load_named_profiles(_, _, _)
load_named_profiles(members, k, profiles) ==
  IF k > Len(members) THEN profiles
  ELSE LET pname == members[k][1]
       IN load_named_profiles(members, k + 1,
            IF ~strcmp_eq(pname, "default") /\ Len(profiles) < MAX_PROFILES
              THEN Append(profiles,
                     [name |-> snprintf(NAME_SIZE, pname),
                      cfg |-> parse_profile_obj(members[k][2], Ptr(profiles[1].cfg))])
              ELSE profiles)

\* config_load_all(path): the new contents of g_profiles, given what
\* json_object_from_file(path) returned (NULL or Ptr(root))
config_load_all(root) ==
  IF root = NULL
    THEN << [name |-> "default", cfg |-> config_defaults] >>
  ELSE IF json_has(Deref(root), "profiles")
    THEN LET profiles_obj == json_get(Deref(root), "profiles")
             p0 == [name |-> snprintf(NAME_SIZE, "default"),
                    cfg |-> IF json_has(profiles_obj, "default")
                              THEN parse_profile_obj(json_get(profiles_obj, "default"), NULL)
                              ELSE config_defaults]
         IN load_named_profiles(profiles_obj.v, 1, <<p0>>)
  ELSE << [name |-> snprintf(NAME_SIZE, "default"),
           cfg |-> parse_profile_obj(Deref(root), NULL)] >>


(***************************************************************************)
(* Nonlinear curve and scroll accumulator                                  *)
(***************************************************************************)
Sgn(x) == IF x > 0 THEN 1 ELSE IF x < 0 THEN -1 ELSE 0

RECURSIVE IntPow(_, _)
IntPow(b, k) == IF k <= 0 THEN 1 ELSE b * IntPow(b, k - 1)

\* The double NaN (0.0 / 0.0).  Every finite double of the model is a
\* fixed-point number far above this value.
NAN == INT_MIN

\* product of two fixed-point doubles, rounded toward zero
DblMul(x, y) ==
  IF x = NAN \/ y = NAN THEN NAN
  ELSE Sgn(x) * Sgn(y) * ((Abs(x) * Abs(y)) \div UNIT)

\* apply_curve(raw, deadzone, exponent, scale) for an exponent that is a
\* whole number >= 0 (pow is then a rational power): norm is the fraction
\* n / d, clamped to [0, 1].  With deadzone = 350 the divisor is zero: norm
\* is NaN for |raw| = 350, which neither clamp changes, and +infinity,
\* clamped to 1, beyond.
apply_curve(raw, deadzone, exponent, scale) ==
  IF Abs(raw) < deadzone THEN 0
  ELSE LET sign == IF raw > 0 THEN 1 ELSE -1
           d0 == MAX_RAW - deadzone
           n0 == Abs(raw) - deadzone
           \* norm > 1 becomes 1, norm < 0 becomes 0
           n == IF d0 < 0 THEN 0 ELSE IF d0 = 0 THEN 1 ELSE Min(n0, d0)
           d == IF d0 <= 0 THEN 1 ELSE d0
           k == exponent \div UNIT
       IN IF d0 = 0 /\ n0 = 0 THEN NAN
          ELSE sign * Sgn(scale) * ((IntPow(n, k) * Abs(scale)) \div IntPow(d, k))

\* The double +infinity (a product such as curve * speed * sensitivity
\* overflows to it).  Every finite double of the model is a fixed-point
\* number far below this value.
INF == INT_MAX

\* x + y on doubles
DblAdd(x, y) ==
  IF x = NAN \/ y = NAN THEN NAN
  ELSE IF x = INF \/ y = INF THEN INF ELSE x + y

\* (int)x for a double x: truncation toward zero when the truncated value
\* fits an int; otherwise (x infinite or beyond the int range) the conversion
\* is undefined and the build yields one of the two ends of the int range
IntCast(x) ==
  IF x \notin {INF, NAN} /\ Trunc(x) >= INT_MIN /\ Trunc(x) <= INT_MAX
    THEN {Trunc(x)}
    ELSE {INT_MIN, INT_MAX}

\* scroll_acc_consume(&acc): the possible <<returned val, new *acc>>
scroll_acc_consume(acc) ==
  { <<val, IF acc \in {INF, NAN} THEN acc ELSE acc - val * UNIT>> : val \in IntCast(acc) }

\* scroll_acc_reset(&sacc)
scroll_acc_reset == [acc_x |-> 0, acc_y |-> 0, acc_z |-> 0]

(***************************************************************************)
(* Command socket                                                          *)
(***************************************************************************)
\* the while loop stripping trailing '\n' and '\r'
RECURSIVE strip_newline(_)
strip_newline(buf) ==
  IF Len(buf) > 0 /\ CharAt(buf, Len(buf)) \in {"\n", "\r"}
    THEN strip_newline(SubSeq(buf, 1, Len(buf) - 1))
    ELSE buf

\* find_profile comparing with strcmp, so that only the exact spelling matches
find_profile_exact(profiles, name) ==
  IF \E i \in 1..Len(profiles) : strcmp_eq(profiles[i].name, name)
    THEN (CHOOSE i \in 1..Len(profiles) :
            /\ strcmp_eq(profiles[i].name, name)
            /\ \A j \in 1..(i - 1) : ~strcmp_eq(profiles[j].name, name)) - 1
    ELSE -1

\* for (i = 0; i < g_profile_count; i++) if (strcasecmp(...) == 0) { found = i; break; }
find_profile(profiles, name) ==
  IF \E i \in 1..Len(profiles) : strcasecmp_eq(profiles[i].name, name)
    THEN (CHOOSE i \in 1..Len(profiles) :
            /\ strcasecmp_eq(profiles[i].name, name)
            /\ \A j \in 1..(i - 1) : ~strcasecmp_eq(profiles[j].name, name)) - 1
    ELSE -1

\* the STATUS loop appending the names without the separating space
RECURSIVE status_names_nospace(_, _, _)
status_names_nospace(profiles, i, response) ==
  IF i > Len(profiles) THEN response
  ELSE LET rem == CMD_BUF_SIZE - Len(response) - 1
       IN IF rem < 2 THEN response
          ELSE status_names_nospace(profiles, i + 1,
                 strncat(response, profiles[i].name, rem - 1))

\* the for loop of the STATUS branch, from profile i (1-based) on
RECURSIVE status_names(_, _, _)
status_names(profiles, i, response) ==
  IF i > Len(profiles) THEN response
  ELSE LET rem == CMD_BUF_SIZE - Len(response) - 1
       IN IF rem < 2 THEN response
          ELSE status_names(profiles, i + 1,
                 strncat(strncat(response, " ", rem), profiles[i].name, rem - 1))

\* the chain comparing the RELOAD and STATUS keywords with strcasecmp
cmd_dispatch_nocase(buf, profiles, active, reload) ==
  IF strncmp_eq(buf, "PROFILE ", 8)
    THEN LET name == SubSeq(buf, 9, Len(buf))
             found == find_profile(profiles, name)
         IN IF found >= 0
              THEN [active |-> found, reload |-> reload,
                    response |-> snprintf(CMD_BUF_SIZE,
                                   "OK " \o profiles[found + 1].name \o "\n")]
              ELSE [active |-> active, reload |-> reload,
                    response |-> snprintf(CMD_BUF_SIZE,
                                   "ERR unknown profile '" \o name \o "'\n")]
  ELSE IF strcasecmp_eq(buf, "RELOAD")
    THEN [active |-> active, reload |-> 1,
          response |-> snprintf(CMD_BUF_SIZE, "OK reloading\n")]
  ELSE IF strcasecmp_eq(buf, "STATUS")
    THEN LET head == snprintf(CMD_BUF_SIZE,
                       "ACTIVE " \o profiles[active + 1].name \o "\nPROFILES")
             list == status_names(profiles, 1, head)
         IN [active |-> active, reload |-> reload,
             response |-> strncat(list, "\n", CMD_BUF_SIZE - Len(list) - 1)]
  ELSE [active |-> active, reload |-> reload,
        response |-> snprintf(CMD_BUF_SIZE, "ERR unknown command\n")]

\* the if / else-if chain of cmd_handle_client on the stripped buffer:
\* the new g_active_profile, the new g_reload and the response written
cmd_dispatch(buf, profiles, active, reload) ==
  IF strncmp_eq(buf, "PROFILE ", 8)
    THEN LET name == SubSeq(buf, 9, Len(buf))
             found == find_profile(profiles, name)
         IN IF found >= 0
              THEN [active |-> found, reload |-> reload,
                    response |-> snprintf(CMD_BUF_SIZE,
                                   "OK " \o profiles[found + 1].name \o "\n")]
              ELSE [active |-> active, reload |-> reload,
                    response |-> snprintf(CMD_BUF_SIZE,
                                   "ERR unknown profile '" \o name \o "'\n")]
  ELSE IF strcmp_eq(buf, "RELOAD")
    THEN [active |-> active, reload |-> 1,
          response |-> snprintf(CMD_BUF_SIZE, "OK reloading\n")]
  ELSE IF strcmp_eq(buf, "STATUS")
    THEN LET head == snprintf(CMD_BUF_SIZE,
                       "ACTIVE " \o profiles[active + 1].name \o "\nPROFILES")
             list == status_names(profiles, 1, head)
         IN [active |-> active, reload |-> reload,
             response |-> strncat(list, "\n", CMD_BUF_SIZE - Len(list) - 1)]
  ELSE [active |-> active, reload |-> reload,
        response |-> snprintf(CMD_BUF_SIZE, "ERR unknown command\n")]

\* read(cfd, buf, sizeof(buf) - 1) stores at most 255 bytes of what was sent
read_buf(data) == SubSeq(data, 1, Min(Len(data), CMD_BUF_SIZE - 1))

\* cmd_handle_client without the loop that strips the line end
cmd_handle_client_nostrip(data, profiles, active, reload) ==
  cmd_dispatch(read_buf(data), profiles, active, reload)

\* cmd_handle_client after a successful read of the bytes `data`
cmd_handle_client(data, profiles, active, reload) ==
  cmd_dispatch(strip_newline(read_buf(data)), profiles, active, reload)


(***************************************************************************)
(* Inputs of the model: configuration documents, command bytes, device     *)
(* events, clock readings                                                   *)
(***************************************************************************)
\* number of desktop-switch triggers the history variable keeps
FiredKeep == 2
\* |accumulator| (in whole units) beyond which no further motion is fed
MaxAcc == 4
\* clock readings 0..MaxTime
MaxTime == 5

\* the string of n copies of c
RECURSIVE Rep(_, _)
Rep(c, n) ==
  IF n <= 0 THEN ""
  ELSE LET half == Rep(c, n \div 2)
       IN half \o half \o (IF n % 2 = 1 THEN c ELSE "")

\* a profile name longer than struct profile's name field
LONG_NAME == "Long" \o Rep("g", NAME_SIZE + 2)
\* a name that leaves no room for the closing quote in an ERR response
HUGE_NAME == Rep("n", CMD_BUF_SIZE - 16)

FillerName(k) == "profile_" \o ToString(k)

DocFlat ==
  JObj(<< <<"deadzone", JInt(10)>>,
          <<"scroll_exponent", JDbl(1 * UNIT)>>,
          <<"axis_mapping", JObj(<< <<"rz", JStr("zoom")>> >>)>> >>)

DocWeb ==
  JObj(<< <<"profiles", JObj(<<
    <<"Web", JObj(<< <<"deadzone", JInt(30)>>,
                     <<"scroll_speed", JDbl(1 * UNIT)>>,
                     <<"desktop_switch_cooldown_ms", JInt(1)>>,
                     <<"invert_scroll_x", JBool(TRUE)>>,
                     <<"axis_mapping", JObj(<< <<"tx", JStr("desktop_switch")>>,
                                               <<"ty", JStr("scroll_h")>>,
                                               <<"ry", JStr("none")>> >>)>>,
                     <<"button_mapping", JObj(<< <<"0", JStr("show_desktop")>>,
                                                 <<"3", JStr("overview")>> >>)>> >>)>>,
    <<"default", JObj(<< <<"deadzone", JInt(10)>>,
                         <<"scroll_exponent", JDbl(1 * UNIT)>>,
                         <<"desktop_switch_threshold", JInt(100)>>,
                         <<"desktop_switch_cooldown_ms", JInt(2)>>,
                         <<"axis_mapping", JObj(<< <<"rx", JStr("desktop_switch")>> >>)>>,
                         <<"button_mapping", JObj(<< <<"1", JStr("none")>>,
                                                     <<"2", JStr("show_desktop")>> >>)>> >>)>>,
    <<"Blender", JObj(<< <<"sensitivity", JDbl(2 * UNIT)>>,
                         <<"zoom_speed", JInt(1)>>,
                         <<"invert_scroll_y", JBool(TRUE)>>,
                         <<"desktop_switch_cooldown_ms", JInt(-1)>>,
                         <<"axis_mapping", JObj(<< <<"tz", JStr("scroll_v")>> >>)>> >>)>>
  >>)>> >>)

DocNoWeb ==
  JObj(<< <<"profiles", JObj(<<
    <<"Blender", JObj(<< <<"deadzone", JInt(0)>>,
                         <<"button_mapping", JObj(<< <<"home", JStr("show_desktop")>>,
                                                     <<"7", JStr("overview")>> >>)>> >>)>>,
    <<"web", JObj(<< <<"scroll_speed", JDbl(UNIT \div 2)>> >>)>>,
    <<LONG_NAME, JObj(<< <<"axis_mapping", JObj(<< <<"tx", JStr("zoom")>> >>)>> >>)>>
  >>)>> >>)

\* more named profiles than the store holds, "Web" and "default" last
DocBig ==
  JObj(<< <<"profiles", JObj(
    [k \in 1..MAX_PROFILES |-> <<FillerName(k), JObj(<< >>)>>]
    \o << <<"Web", JObj(<< <<"deadzone", JInt(30)>> >>)>>,
          <<"default", JObj(<< <<"deadzone", JInt(12)>> >>)>> >>)>> >>)

\* values of the wrong type and action names that do not exist
DocBad ==
  JObj(<< <<"profiles", JObj(<<
    <<"default", JObj(<< <<"deadzone", JInt(10)>>,
                         <<"scroll_speed", JStr("fast")>>,
                         <<"axis_mapping", JObj(<< <<"tx", JStr("zoom")>> >>)>> >>)>>,
    <<"Odd", JObj(<< <<"deadzone", JStr("wide")>>,
                     <<"zoom_speed", JDbl(3 * UNIT)>>,
                     <<"invert_scroll_x", JInt(3)>>,
                     <<"axis_mapping", JObj(<< <<"tx", JStr("spin")>>,
                                               <<"ty", JInt(7)>>,
                                               <<"rz", JStr("scroll_v")>> >>)>>,
                     <<"button_mapping", JObj(<< <<"0", JStr("expose")>>,
                                                 <<"1", JStr("overview")>> >>)>> >>)>>
  >>)>> >>)

\* profile names that differ in case only, one of them from "default"
DocDup ==
  JObj(<< <<"profiles", JObj(<<
    <<"default", JObj(<< <<"deadzone", JInt(10)>> >>)>>,
    <<"Web", JObj(<< <<"deadzone", JInt(30)>> >>)>>,
    <<"web", JObj(<< <<"deadzone", JInt(5)>> >>)>>,
    <<"Default", JObj(<< <<"deadzone", JInt(7)>> >>)>>
  >>)>> >>)

\* json_object_from_file(path) for each state of the file
Doc(id) ==
  CASE id = "flat" -> Ptr(DocFlat)
    [] id = "web" -> Ptr(DocWeb)
    [] id = "noweb" -> Ptr(DocNoWeb)
    [] id = "big" -> Ptr(DocBig)
    [] id = "bad" -> Ptr(DocBad)
    [] id = "dup" -> Ptr(DocDup)
    [] OTHER -> NULL

Docs == {"missing", "flat", "web", "noweb", "big", "bad", "dup"}
SmallDocs == {"missing", "flat", "web", "noweb"}

CmdInputs ==
  { "PROFILE Web\n", "PROFILE web", "PROFILE BLENDER\r\n", "PROFILE default\n",
    "PROFILE Nope\n", "PROFILE ", "PROFILE", "PROFILE " \o FillerName(MAX_PROFILES - 1),
    "PROFILE " \o snprintf(NAME_SIZE, LONG_NAME), "PROFILE " \o HUGE_NAME \o "\n",
    "RELOAD\n", "RELOAD", "RELOAD x", "STATUS\n", "status\n", "\n" }

Motion(x, y, z, rx, ry, rz) ==
  [type |-> "motion",
   axes |-> [a \in Axes |-> CASE a = 0 -> x [] a = 1 -> y [] a = 2 -> z
                              [] a = 3 -> rx [] a = 4 -> ry [] OTHER -> rz]]
Button(press, bnum) == [type |-> "button", press |-> press, bnum |-> bnum]
NoEvent == [type |-> "none"]

MotionEvents == { Motion(180, 0, 0, 0, 0, 0), Motion(0, -95, 350, 0, 0, 0) }

\* samples for the desktop-switch slots: over and under the thresholds
SwitchEvents == { Motion(350, 0, 0, 350, 0, 0), Motion(0, 0, 0, -150, 0, 0),
                  Motion(0, 0, 0, 100, 0, 0) }

\* presses of mapped buttons, a release, and indices outside 0..15
ButtonEvents == { Button(1, 0), Button(1, 2), Button(0, 2), Button(1, NUM_BUTTONS),
                  Button(1, -1) }

Times == 0..MaxTime

\* what main() found at start-up: everything available; no uinput; no
\* session bus and no command socket
EnvFull == [uinput |-> 3, dbus |-> TRUE, cmd |-> 4]
EnvNoUinput == [uinput |-> -1, dbus |-> TRUE, cmd |-> 4]
EnvNoDbus == [uinput |-> 3, dbus |-> FALSE, cmd |-> -1]
\* no session bus, everything else available
EnvNoBus == [uinput |-> 3, dbus |-> FALSE, cmd |-> 4]


(***************************************************************************)
(* State                                                                   *)
(***************************************************************************)
g_profile_count == Len(g_profiles)

\* struct config *c = &g_profiles[g_active_profile].cfg
ActiveCfg == g_profiles[g_active_profile + 1].cfg

NoConn == [accepted |-> FALSE, data |-> "", response |-> ""]
NoEmit == <<0, 0, 0>>
NoHist == [n |-> 0, drift |-> 0, total |-> 0, ret |-> 0]

\* a step that serves no client and emits nothing
NoShape == [n |-> 0, raw |-> 0, deadzone |-> 0, exponent |-> 0, scale |-> 0, out |-> 0]
Quiet ==
  /\ conn' = NoConn
  /\ kwin_req' = ""
  /\ dbus_sent' = ""
  /\ uinput_ev' = NoEmit

\* main() up to the first test of the loop condition, for one environment
\* and one state of the configuration file
InitIn(envs, docs) ==
  /\ pc = "while"
  /\ g_running = 1
  /\ g_reload = 0
  /\ config_file \in docs
  /\ g_profiles = config_load_all(Doc(config_file))
  /\ g_active_profile = 0
  /\ \E e \in envs : g_uinput_fd = e.uinput /\ g_dbus = e.dbus /\ cmd_fd = e.cmd
  /\ sacc = scroll_acc_reset
  /\ last_dswitch = 0
  /\ desktop_shown = 0
  /\ fds = [dev |-> FALSE, cmd |-> FALSE]
  /\ ev = NoEvent
  /\ slot = 0
  /\ clock = 0
  /\ conn = NoConn
  /\ kwin_req = ""
  /\ dbus_sent = ""
  /\ uinput_ev = NoEmit
  /\ iter = [saw |-> FALSE, reloaded |-> FALSE]
  /\ fired = << >>
  /\ acc_hist = NoHist
  /\ shaped = NoShape

(***************************************************************************)
(* Signal handlers and the clock                                           *)
(***************************************************************************)
on_sigterm ==
  /\ pc # "done"
  /\ g_running' = 0
  /\ UNCHANGED <<pc, g_reload, g_profiles, g_active_profile, g_uinput_fd, g_dbus,
                 cmd_fd, sacc, last_dswitch, desktop_shown, fds, ev, slot, clock,
                 config_file, conn, kwin_req, dbus_sent, uinput_ev, iter, fired,
                 acc_hist, shaped>>

\* a reload handler that also falls back to the default profile
on_sighup_resetting ==
  /\ pc # "done"
  /\ g_reload' = 1
  /\ g_active_profile' = 0
  /\ UNCHANGED <<pc, g_running, g_profiles, g_uinput_fd, g_dbus,
                 cmd_fd, sacc, last_dswitch, desktop_shown, fds, ev, slot, clock,
                 config_file, conn, kwin_req, dbus_sent, uinput_ev, iter, fired,
                 acc_hist, shaped>>

on_sighup ==
  /\ pc # "done"
  /\ g_reload' = 1
  /\ UNCHANGED <<pc, g_running, g_profiles, g_active_profile, g_uinput_fd, g_dbus,
                 cmd_fd, sacc, last_dswitch, desktop_shown, fds, ev, slot, clock,
                 config_file, conn, kwin_req, dbus_sent, uinput_ev, iter, fired,
                 acc_hist, shaped>>

\* time passes: the monotonic clock moves to a later reading.  time_ms() is
\* called only while a slot is routed, so the clock need only move then.
Tick(times) ==
  /\ pc = "slot"
  /\ \E t \in times : t > clock /\ clock' = t
  /\ UNCHANGED <<pc, g_running, g_reload, g_profiles, g_active_profile, g_uinput_fd,
                 g_dbus, cmd_fd, sacc, last_dswitch, desktop_shown, fds, ev, slot,
                 config_file, conn, kwin_req, dbus_sent, uinput_ev, iter, fired,
                 acc_hist, shaped>>

(***************************************************************************)
(* The main loop                                                           *)
(***************************************************************************)
\* cleanup: profiles_free_all() empties the store
Cleanup ==
  /\ pc' = "done"
  /\ g_profiles' = << >>

\* while (g_running || g_reload): a pending reload keeps the loop alive
LoopTest_reload ==
  /\ pc = "while"
  /\ IF g_running # 0 \/ g_reload # 0
       THEN pc' = "if_reload" /\ UNCHANGED g_profiles
       ELSE Cleanup
  /\ Quiet
  /\ UNCHANGED <<g_running, g_reload, g_active_profile, g_uinput_fd, g_dbus, cmd_fd,
                 sacc, last_dswitch, desktop_shown, fds, ev, slot, clock,
                 config_file, iter, fired,
                 acc_hist, shaped>>

\* while (g_running)
LoopTest ==
  /\ pc = "while"
  /\ IF g_running # 0
       THEN pc' = "if_reload" /\ UNCHANGED g_profiles
       ELSE Cleanup
  /\ Quiet
  /\ UNCHANGED <<g_running, g_reload, g_active_profile, g_uinput_fd, g_dbus, cmd_fd,
                 sacc, last_dswitch, desktop_shown, fds, ev, slot, clock,
                 config_file, iter, fired,
                 acc_hist, shaped>>

\* the test of g_reload falling through to poll() without reloading
IfReload_skip ==
  /\ pc = "if_reload"
  /\ pc' = "poll"
  /\ iter' = [saw |-> g_reload # 0, reloaded |-> FALSE]
  /\ Quiet
  /\ UNCHANGED <<g_running, g_reload, g_profiles, g_active_profile, g_uinput_fd,
                 g_dbus, cmd_fd, sacc, last_dswitch, desktop_shown, fds, ev, slot,
                 clock, config_file, fired, acc_hist, shaped>>

\* if (g_reload)
IfReload ==
  /\ pc = "if_reload"
  /\ pc' = IF g_reload # 0 THEN "reload_clear" ELSE "poll"
  /\ iter' = [saw |-> g_reload # 0, reloaded |-> FALSE]
  /\ Quiet
  /\ UNCHANGED <<g_running, g_reload, g_profiles, g_active_profile, g_uinput_fd,
                 g_dbus, cmd_fd, sacc, last_dswitch, desktop_shown, fds, ev, slot,
                 clock, config_file, fired,
                 acc_hist, shaped>>

\* g_reload = 0;
ReloadClear ==
  /\ pc = "reload_clear"
  /\ g_reload' = 0
  /\ pc' = "reload_run"
  /\ Quiet
  /\ UNCHANGED <<g_running, g_profiles, g_active_profile, g_uinput_fd, g_dbus,
                 cmd_fd, sacc, last_dswitch, desktop_shown, fds, ev, slot, clock,
                 config_file, iter, fired,
                 acc_hist, shaped>>

\* resolve_active comparing with strcasecmp, as the PROFILE lookup does
resolve_active_nocase(profiles, old_name) ==
  IF \E i \in 1..Len(profiles) : strcasecmp_eq(profiles[i].name, old_name)
    THEN (CHOOSE i \in 1..Len(profiles) :
            /\ strcasecmp_eq(profiles[i].name, old_name)
            /\ \A j \in 1..(i - 1) : ~strcasecmp_eq(profiles[j].name, old_name)) - 1
    ELSE 0

\* resolve_active falling back to the index after the last profile
resolve_active_past_end(profiles, old_name) ==
  IF \E i \in 1..Len(profiles) : strcmp_eq(profiles[i].name, old_name)
    THEN (CHOOSE i \in 1..Len(profiles) :
            /\ strcmp_eq(profiles[i].name, old_name)
            /\ \A j \in 1..(i - 1) : ~strcmp_eq(profiles[j].name, old_name)) - 1
    ELSE Len(profiles)

\* the for loop after config_load_all: the first profile named old_name, else 0
resolve_active(profiles, old_name) ==
  IF \E i \in 1..Len(profiles) : strcmp_eq(profiles[i].name, old_name)
    THEN (CHOOSE i \in 1..Len(profiles) :
            /\ strcmp_eq(profiles[i].name, old_name)
            /\ \A j \in 1..(i - 1) : ~strcmp_eq(profiles[j].name, old_name)) - 1
    ELSE 0

\* a reload that also forgets the time of the last desktop switch
ReloadRun_forgetting(docs) ==
  /\ pc = "reload_run"
  /\ \E d \in docs :
       LET old_name == snprintf(NAME_SIZE, g_profiles[g_active_profile + 1].name)
           loaded == config_load_all(Doc(d))
       IN /\ config_file' = d
          /\ g_profiles' = loaded
          /\ g_active_profile' = resolve_active(loaded, old_name)
  /\ sacc' = scroll_acc_reset
  /\ last_dswitch' = 0
  /\ iter' = [iter EXCEPT !.reloaded = TRUE]
  /\ pc' = "poll"
  /\ Quiet
  /\ UNCHANGED <<g_running, g_reload, g_uinput_fd, g_dbus, cmd_fd,
                 desktop_shown, fds, ev, slot, clock, fired,
                 acc_hist, shaped>>

\* a reload that clears the reload flag when it is done, not before
ReloadRun_clearing(docs) ==
  /\ pc = "reload_run"
  /\ \E d \in docs :
       LET old_name == snprintf(NAME_SIZE, g_profiles[g_active_profile + 1].name)
           loaded == config_load_all(Doc(d))
       IN /\ config_file' = d
          /\ g_profiles' = loaded
          /\ g_active_profile' = resolve_active(loaded, old_name)
  /\ sacc' = scroll_acc_reset
  /\ g_reload' = 0
  /\ iter' = [iter EXCEPT !.reloaded = TRUE]
  /\ pc' = "poll"
  /\ Quiet
  /\ UNCHANGED <<g_running, g_uinput_fd, g_dbus, cmd_fd, last_dswitch,
                 desktop_shown, fds, ev, slot, clock, fired,
                 acc_hist, shaped>>

\* old_name saved, config_load_all(g_config_path), active profile resolved
\* by name, scroll_acc_reset
ReloadRun(docs) ==
  /\ pc = "reload_run"
  /\ \E d \in docs :
       LET old_name == snprintf(NAME_SIZE, g_profiles[g_active_profile + 1].name)
           loaded == config_load_all(Doc(d))
       IN /\ config_file' = d
          /\ g_profiles' = loaded
          /\ g_active_profile' = resolve_active(loaded, old_name)
  /\ sacc' = scroll_acc_reset
  /\ iter' = [iter EXCEPT !.reloaded = TRUE]
  /\ pc' = "poll"
  /\ Quiet
  /\ UNCHANGED <<g_running, g_reload, g_uinput_fd, g_dbus, cmd_fd, last_dswitch,
                 desktop_shown, fds, ev, slot, clock, fired,
                 acc_hist, shaped>>

\* poll(fds, nfds, 100): interrupted or timed out (continue), failed (break),
\* or some descriptor readable
Poll ==
  /\ pc = "poll"
  /\ \/ /\ pc' = "while"
        /\ UNCHANGED <<fds, g_profiles>>
     \/ /\ Cleanup
        /\ UNCHANGED fds
     \/ /\ \E dev \in BOOLEAN, cmd \in BOOLEAN :
             /\ dev \/ cmd
             /\ cmd => cmd_fd >= 0
             /\ fds' = [dev |-> dev, cmd |-> cmd]
        /\ pc' = "cmd"
        /\ UNCHANGED g_profiles
  /\ Quiet
  /\ UNCHANGED <<g_running, g_reload, g_active_profile, g_uinput_fd, g_dbus, cmd_fd,
                 sacc, last_dswitch, desktop_shown, ev, slot, clock, config_file,
                 iter, fired,
                 acc_hist, shaped>>

\* the command socket step without scroll_acc_reset(&sacc)
CmdSock_noreset(inputs) ==
  /\ pc = "cmd"
  /\ IF cmd_fd >= 0 /\ fds.cmd
       THEN /\ \/ /\ \E accepted \in BOOLEAN :
                       conn' = [accepted |-> accepted, data |-> "", response |-> ""]
                  /\ UNCHANGED <<g_active_profile, g_reload>>
               \/ \E data \in inputs :
                    LET r == cmd_handle_client(data, g_profiles, g_active_profile, g_reload)
                    IN /\ g_active_profile' = r.active
                       /\ g_reload' = r.reload
                       /\ conn' = [accepted |-> TRUE, data |-> data,
                                   response |-> r.response]
            /\ sacc' = sacc
       ELSE /\ conn' = NoConn
            /\ UNCHANGED <<g_active_profile, g_reload, sacc>>
  /\ pc' = "events"
  /\ kwin_req' = ""
  /\ dbus_sent' = ""
  /\ uinput_ev' = NoEmit
  /\ UNCHANGED <<g_running, g_profiles, g_uinput_fd, g_dbus, cmd_fd, last_dswitch,
                 desktop_shown, fds, ev, slot, clock, config_file, iter, fired,
                 acc_hist, shaped>>

\* if (nfds > 1 && (fds[1].revents & POLLIN)) { cmd_handle_client(cmd_fd);
\* scroll_acc_reset(&sacc); }  The accept or the read may fail; then no
\* command is handled and nothing is written.
CmdSock(inputs) ==
  /\ pc = "cmd"
  /\ IF cmd_fd >= 0 /\ fds.cmd
       THEN /\ \/ /\ \E accepted \in BOOLEAN :
                       conn' = [accepted |-> accepted, data |-> "", response |-> ""]
                  /\ UNCHANGED <<g_active_profile, g_reload>>
               \/ \E data \in inputs :
                    LET r == cmd_handle_client(data, g_profiles, g_active_profile, g_reload)
                    IN /\ g_active_profile' = r.active
                       /\ g_reload' = r.reload
                       /\ conn' = [accepted |-> TRUE, data |-> data,
                                   response |-> r.response]
            /\ sacc' = scroll_acc_reset
       ELSE /\ conn' = NoConn
            /\ UNCHANGED <<g_active_profile, g_reload, sacc>>
  /\ pc' = "events"
  /\ kwin_req' = ""
  /\ dbus_sent' = ""
  /\ uinput_ev' = NoEmit
  /\ UNCHANGED <<g_running, g_profiles, g_uinput_fd, g_dbus, cmd_fd, last_dswitch,
                 desktop_shown, fds, ev, slot, clock, config_file, iter, fired,
                 acc_hist, shaped>>

\* the device is not readable, or spnav_poll_event() returns 0
EndEvents ==
  /\ pc = "events"
  /\ pc' = "while"
  /\ Quiet
  /\ UNCHANGED <<g_running, g_reload, g_profiles, g_active_profile, g_uinput_fd,
                 g_dbus, cmd_fd, sacc, last_dswitch, desktop_shown, fds, ev, slot,
                 clock, config_file, iter, fired,
                 acc_hist, shaped>>

AccBounded ==
  /\ Abs(sacc.acc_x) <= MaxAcc * UNIT
  /\ Abs(sacc.acc_y) <= MaxAcc * UNIT
  /\ Abs(sacc.acc_z) <= MaxAcc * UNIT

\* spnav_poll_event(&ev) returns a motion event
PollMotion(events) ==
  /\ pc = "events"
  /\ fds.dev
  /\ AccBounded
  /\ \E e \in events : ev' = e
  /\ slot' = 0
  /\ pc' = "slot"
  /\ Quiet
  /\ UNCHANGED <<g_running, g_reload, g_profiles, g_active_profile, g_uinput_fd,
                 g_dbus, cmd_fd, sacc, last_dswitch, desktop_shown, fds, clock,
                 config_file, iter, fired,
                 acc_hist, shaped>>

\* one turn of for (i = 0; i < 6; i++) { switch (c->axis_map[i]) ... }:
\* the new accumulators for a scroll or zoom slot
route_axis(c, action, raw, acc) ==
  CASE action = ACT_SCROLL_H ->
         LET val == DblMul(apply_curve(raw, c.deadzone, c.scroll_exponent, c.scroll_speed),
                           c.sensitivity)
         IN [acc EXCEPT !.acc_x = DblAdd(@, IF c.invert_scroll_x # 0 THEN -val ELSE val)]
    [] action = ACT_SCROLL_V ->
         LET val == DblMul(apply_curve(raw, c.deadzone, c.scroll_exponent, c.scroll_speed),
                           c.sensitivity)
         IN [acc EXCEPT !.acc_y = DblAdd(@, -(IF c.invert_scroll_y # 0 THEN -val ELSE val))]
    [] action = ACT_ZOOM ->
         LET val == DblMul(apply_curve(raw, c.deadzone, c.scroll_exponent, c.zoom_speed),
                           c.sensitivity)
         IN [acc EXCEPT !.acc_z = DblAdd(@, val)]
    [] OTHER -> acc

\* the gate with >= in place of > in the cooldown test
dswitch_fires_ge(c, raw, now, last) ==
  Abs(raw) > c.dswitch_threshold /\ (now - last) >= c.dswitch_cooldown_ms

\* case ACT_DESKTOP_SWITCH: does the sample fire at time now?
dswitch_fires(c, raw, now, last) ==
  Abs(raw) > c.dswitch_threshold /\ (now - last) > c.dswitch_cooldown_ms

\* the two directions exchanged
dswitch_method_swapped(raw) == IF raw > 0 THEN "previousDesktop" ELSE "nextDesktop"

\* the method passed to dbus_call_kwin
dswitch_method(raw) == IF raw > 0 THEN "nextDesktop" ELSE "previousDesktop"

KeepLast(seq, n) == IF Len(seq) > n THEN SubSeq(seq, Len(seq) - n + 1, Len(seq)) ELSE seq

\* a six-slot loop left for the drain after every slot
slot_after_each(i) == "drain"

\* for (int i = 0; i < 6; i++): after slot i, the next slot or the drain
slot_after(i) == IF i + 1 < NUM_AXES THEN "slot" ELSE "drain"

RouteSlot ==
  /\ pc = "slot"
  /\ LET c == ActiveCfg
         raw == ev.axes[slot]
         now == clock
     IN IF c.axis_map[slot] = ACT_DESKTOP_SWITCH
          THEN /\ IF dswitch_fires(c, raw, now, last_dswitch)
                    THEN /\ kwin_req' = dswitch_method(raw)
                         /\ dbus_sent' = IF g_dbus THEN dswitch_method(raw) ELSE ""
                         /\ last_dswitch' = now
                         /\ fired' = KeepLast(Append(fired,
                                       [t |-> now, cool |-> c.dswitch_cooldown_ms]), FiredKeep)
                    ELSE /\ kwin_req' = ""
                         /\ dbus_sent' = ""
                         /\ UNCHANGED <<last_dswitch, fired>>
               /\ UNCHANGED sacc
          ELSE /\ sacc' = route_axis(c, c.axis_map[slot], raw, sacc)
               /\ kwin_req' = ""
               /\ dbus_sent' = ""
               /\ UNCHANGED <<last_dswitch, fired>>
  /\ slot' = slot + 1
  /\ pc' = slot_after(slot)
  /\ conn' = NoConn
  /\ uinput_ev' = NoEmit
  /\ UNCHANGED <<g_running, g_reload, g_profiles, g_active_profile, g_uinput_fd,
                 g_dbus, cmd_fd, desktop_shown, fds, ev, clock, config_file, iter,
                 acc_hist, shaped>>

\* if (g_uinput_fd >= 0) { consume the three accumulators; emit }
Drain ==
  /\ pc = "drain"
  /\ IF g_uinput_fd >= 0
       THEN \E rx \in scroll_acc_consume(sacc.acc_x),
               ry \in scroll_acc_consume(sacc.acc_y),
               rz \in scroll_acc_consume(sacc.acc_z) :
              /\ sacc' = [acc_x |-> rx[2], acc_y |-> ry[2], acc_z |-> rz[2]]
              /\ uinput_ev' = <<rx[1], ry[1], rz[1]>>
       ELSE /\ UNCHANGED sacc
            /\ uinput_ev' = NoEmit
  /\ pc' = "events"
  /\ conn' = NoConn
  /\ kwin_req' = ""
  /\ dbus_sent' = ""
  /\ UNCHANGED <<g_running, g_reload, g_profiles, g_active_profile, g_uinput_fd,
                 g_dbus, cmd_fd, last_dswitch, desktop_shown, fds, ev, slot, clock,
                 config_file, iter, fired,
                 acc_hist, shaped>>

\* the payload carrying the flag inverted
show_desktop_msg_inverted(v) == IF v # 0 THEN "showDesktop false" ELSE "showDesktop true"

\* dbus_bool_t v = desktop_shown; dbus_message_append_args(msg, BOOLEAN, &v)
show_desktop_msg(v) == IF v # 0 THEN "showDesktop true" ELSE "showDesktop false"

\* dbus_connection_send(connection, msg, NULL): what libdbus is handed.  With
\* a NULL connection nothing reaches a bus; the call is made all the same.
dbus_connection_send(connection, msg) ==
  IF connection THEN msg ELSE "(NULL connection) " \o msg

\* where control is after dbus_connection_send and dbus_connection_flush:
\* with a NULL connection libdbus either rejects the argument and returns
\* (a build with argument checks) or dereferences it and the process dies
after_dbus_send(connection) == IF connection THEN {"events"} ELSE {"events", "crash"}

\* spnav_poll_event(&ev) returns a button event, which is routed at once
RouteButton(events) ==
  /\ pc = "events"
  /\ fds.dev
  /\ \E e \in events :
       /\ ev' = e
       /\ IF e.press # 0 /\ e.bnum >= 0 /\ e.bnum < NUM_BUTTONS
            THEN LET action == ActiveCfg.btn_map[e.bnum]
                 IN CASE action = BTNACT_OVERVIEW ->
                           /\ kwin_req' = "ExposeAll"
                           /\ dbus_sent' = IF g_dbus THEN "ExposeAll" ELSE ""
                           /\ pc' = "events"
                           /\ UNCHANGED desktop_shown
                      [] action = BTNACT_SHOW_DESKTOP ->
                           /\ desktop_shown' = IF desktop_shown = 0 THEN 1 ELSE 0
                           /\ kwin_req' = "showDesktop"
                           /\ dbus_sent' = dbus_connection_send(g_dbus,
                                             show_desktop_msg(desktop_shown'))
                           /\ pc' \in after_dbus_send(g_dbus)
                      [] OTHER ->
                           /\ kwin_req' = ""
                           /\ dbus_sent' = ""
                           /\ pc' = "events"
                           /\ UNCHANGED desktop_shown
            ELSE /\ kwin_req' = ""
                 /\ dbus_sent' = ""
                 /\ pc' = "events"
                 /\ UNCHANGED desktop_shown
  /\ conn' = NoConn
  /\ uinput_ev' = NoEmit
  /\ UNCHANGED <<g_running, g_reload, g_profiles, g_active_profile, g_uinput_fd,
                 g_dbus, cmd_fd, sacc, last_dswitch, fds, slot, clock, config_file,
                 iter, fired,
                 acc_hist, shaped>>

(***************************************************************************)
(* Specifications                                                          *)
(***************************************************************************)
\* The daemon with its command socket, reloads and motion samples
Init == InitIn({EnvFull}, SmallDocs)

Next ==
  \/ on_sigterm
  \/ on_sighup
  \/ LoopTest
  \/ IfReload
  \/ ReloadClear
  \/ ReloadRun(SmallDocs)
  \/ Poll
  \/ CmdSock(CmdInputs)
  \/ EndEvents
  \/ PollMotion(MotionEvents)
  \/ RouteSlot
  \/ Drain

Spec == Init /\ [][Next]_vars

\* The profile store: every document, every command, no device traffic
InitStore == InitIn({EnvFull, EnvNoDbus}, Docs)

NextStore ==
  \/ on_sigterm
  \/ on_sighup
  \/ LoopTest
  \/ IfReload
  \/ ReloadClear
  \/ ReloadRun(Docs)
  \/ Poll
  \/ CmdSock(CmdInputs)
  \/ EndEvents

SpecStore == InitStore /\ [][NextStore]_vars

\* The desktop-switch gate: time passes between samples and between the
\* slots of a sample, and the active profile is switched by command
GateDocs == {"web"}
GateInputs == {"PROFILE Web\n", "PROFILE Blender\n", "PROFILE default\n"}

InitGate == InitIn({EnvFull}, GateDocs)

NextGate ==
  \/ Tick(Times)
  \/ LoopTest
  \/ IfReload
  \/ Poll
  \/ CmdSock(GateInputs)
  \/ EndEvents
  \/ PollMotion(SwitchEvents)
  \/ RouteSlot
  \/ Drain

SpecGate == InitGate /\ [][NextGate]_vars

\* The scroll accumulator alone: one value is added to the accumulator (as a
\* routed slot does) and the accumulator is consumed (as the drain does)
AccSteps == 6
AccDeltas == { 1, -1, UNIT + 1, -(UNIT + 1), 2 * UNIT, 3 * UNIT + 1, -(5 * UNIT + 1),
               MAX_RAW * UNIT - 1, INF }

InitAcc ==
  /\ pc = "consume"
  /\ g_running = 1
  /\ g_reload = 0
  /\ config_file = "missing"
  /\ g_profiles = config_load_all(Doc(config_file))
  /\ g_active_profile = 0
  /\ g_uinput_fd = EnvFull.uinput /\ g_dbus = EnvFull.dbus /\ cmd_fd = EnvFull.cmd
  /\ sacc = scroll_acc_reset
  /\ last_dswitch = 0
  /\ desktop_shown = 0
  /\ fds = [dev |-> FALSE, cmd |-> FALSE]
  /\ ev = NoEvent
  /\ slot = 0
  /\ clock = 0
  /\ conn = NoConn
  /\ kwin_req = ""
  /\ dbus_sent = ""
  /\ uinput_ev = NoEmit
  /\ iter = [saw |-> FALSE, reloaded |-> FALSE]
  /\ fired = << >>
  /\ acc_hist = NoHist
  /\ shaped = NoShape

\* sacc.acc_x += val;  ...  int sx = scroll_acc_consume(&sacc.acc_x);
\* The history is kept for AccSteps steps and while the accumulator is finite.
AccStep(deltas) ==
  /\ pc = "consume"
  /\ acc_hist.n < AccSteps
  /\ sacc.acc_x # INF
  /\ \E delta \in deltas :
       \E r \in scroll_acc_consume(DblAdd(sacc.acc_x, delta)) :
         /\ sacc' = [sacc EXCEPT !.acc_x = r[2]]
         /\ acc_hist' = [n |-> acc_hist.n + 1,
                         drift |-> IF delta = INF THEN INF
                                   ELSE acc_hist.drift + delta - r[1] * UNIT,
                         total |-> DblAdd(sacc.acc_x, delta),
                         ret |-> r[1]]
  /\ UNCHANGED <<pc, g_running, g_reload, g_profiles, g_active_profile, g_uinput_fd,
                 g_dbus, cmd_fd, last_dswitch, desktop_shown, fds, ev, slot, clock,
                 config_file, conn, kwin_req, dbus_sent, uinput_ev, iter, fired,
                 shaped>>

NextAcc == AccStep(AccDeltas)

SpecAcc == InitAcc /\ [][NextAcc]_vars

\* Sample routing: motion samples with and without the scroll/zoom
\* emitter, the active profile switched by command
RouteDocs == {"flat", "web"}
\* the second sample deflects two axes that the flat document maps to zoom
RouteEvents == MotionEvents \cup { Motion(0, 0, MAX_RAW, 0, 0, MAX_RAW) }

InitRoute == InitIn({EnvFull, EnvNoUinput}, RouteDocs)

NextRoute ==
  \/ LoopTest
  \/ IfReload
  \/ Poll
  \/ CmdSock(GateInputs)
  \/ EndEvents
  \/ PollMotion(RouteEvents)
  \/ RouteSlot
  \/ Drain

SpecRoute == InitRoute /\ [][NextRoute]_vars

\* Buttons and collaborators: button and motion events, commands, reloads
\* by command, with each of the output collaborators present or absent
ButtonDocs == {"web"}
ButtonInputs == {"PROFILE Web\n", "PROFILE default\n", "RELOAD\n"}
ButtonMotion == { Motion(MAX_RAW, 0, 0, MAX_RAW, 0, 0) }

InitButton == InitIn({EnvFull, EnvNoUinput, EnvNoBus}, ButtonDocs)

NextButton ==
  \/ LoopTest
  \/ IfReload
  \/ ReloadClear
  \/ ReloadRun(ButtonDocs)
  \/ Poll
  \/ CmdSock(ButtonInputs)
  \/ EndEvents
  \/ PollMotion(ButtonMotion)
  \/ RouteSlot
  \/ Drain
  \/ RouteButton(ButtonEvents)

SpecButton == InitButton /\ [][NextButton]_vars

\* The cooldown timestamp: time passes, samples cross the thresholds, the
\* active profile is switched by command and the document is reloaded
CoolDocs == {"web"}
CoolInputs == {"PROFILE Web\n", "PROFILE default\n", "RELOAD\n"}
CoolEvents == { Motion(MAX_RAW, 0, 0, MAX_RAW, 0, 0) }

InitCool == InitIn({EnvFull}, CoolDocs)

NextCool ==
  \/ Tick(Times)
  \/ LoopTest
  \/ IfReload
  \/ ReloadClear
  \/ ReloadRun(CoolDocs)
  \/ Poll
  \/ CmdSock(CoolInputs)
  \/ EndEvents
  \/ PollMotion(CoolEvents)
  \/ RouteSlot
  \/ Drain

SpecCool == InitCool /\ [][NextCool]_vars

\* The loop that is never asked to stop: reload signals at any point, no
\* termination signal and no failing poll.  Every iteration finishes: the
\* program always takes its next step, and a batch of device events ends.
LiveDocs == {"missing", "flat"}
LiveInputs == {"RELOAD\n", "STATUS\n"}
LiveEvents == { Motion(180, 0, 0, 0, 0, 0) }

InitLive == InitIn({EnvFull}, LiveDocs)

\* poll() that does not fail
PollAlive == Poll /\ pc' # "done"

ProgramStep ==
  \/ LoopTest
  \/ IfReload
  \/ ReloadClear
  \/ ReloadRun(LiveDocs)
  \/ PollAlive
  \/ CmdSock(LiveInputs)
  \/ EndEvents
  \/ PollMotion(LiveEvents)
  \/ RouteSlot
  \/ Drain

NextLive ==
  \/ on_sighup
  \/ ProgramStep

SpecLive ==
  /\ InitLive
  /\ [][NextLive]_vars
  /\ WF_vars(ProgramStep)
  /\ SF_vars(EndEvents)

\* The curve alone: apply_curve is called with one combination of a raw
\* axis value of the device range, a configured deadzone, exponent and scale
CurveRaws == { -MAX_RAW, -(MAX_RAW - 1), -180, -(DEFAULT_DEADZONE + 1),
               -DEFAULT_DEADZONE, -1, 0, 1, DEFAULT_DEADZONE,
               DEFAULT_DEADZONE + 1, 180, MAX_RAW - 1, MAX_RAW }
CurveDeadzones == { -MAX_RAW, -20, 0, DEFAULT_DEADZONE, MAX_RAW - 1, MAX_RAW,
                    MAX_RAW + 50 }
CurveExponents == { 0, 1 * UNIT, 2 * UNIT }
CurveScales == { 1, DEFAULT_SCROLL_SPEED * UNIT, 40 * UNIT }

InitCurve ==
  /\ pc = "curve"
  /\ g_running = 1
  /\ g_reload = 0
  /\ config_file = "missing"
  /\ g_profiles = config_load_all(Doc(config_file))
  /\ g_active_profile = 0
  /\ g_uinput_fd = EnvFull.uinput /\ g_dbus = EnvFull.dbus /\ cmd_fd = EnvFull.cmd
  /\ sacc = scroll_acc_reset
  /\ last_dswitch = 0
  /\ desktop_shown = 0
  /\ fds = [dev |-> FALSE, cmd |-> FALSE]
  /\ ev = NoEvent
  /\ slot = 0
  /\ clock = 0
  /\ conn = NoConn
  /\ kwin_req = ""
  /\ dbus_sent = ""
  /\ uinput_ev = NoEmit
  /\ iter = [saw |-> FALSE, reloaded |-> FALSE]
  /\ fired = << >>
  /\ acc_hist = NoHist
  /\ shaped = NoShape

\* val = apply_curve(axes[i], c->deadzone, c->scroll_exponent, c->scroll_speed)
CurveStep(raws, deadzones, exponents, scales) ==
  /\ pc = "curve"
  /\ \E raw \in raws, deadzone \in deadzones, exponent \in exponents,
        scale \in scales :
       shaped' = [n |-> 1, raw |-> raw, deadzone |-> deadzone,
                  exponent |-> exponent, scale |-> scale,
                  out |-> apply_curve(raw, deadzone, exponent, scale)]
  /\ UNCHANGED <<pc, g_running, g_reload, g_profiles, g_active_profile, g_uinput_fd,
                 g_dbus, cmd_fd, sacc, last_dswitch, desktop_shown, fds, ev, slot,
                 clock, config_file, conn, kwin_req, dbus_sent, uinput_ev, iter,
                 fired, acc_hist>>

NextCurve == CurveStep(CurveRaws, CurveDeadzones, CurveExponents, CurveScales)

SpecCurve == InitCurve /\ [][NextCurve]_vars

(***************************************************************************)
(* Properties                                                              *)
(***************************************************************************)
\* the step in which cmd_handle_client read a command from a client
CmdHandled == pc = "cmd" /\ pc' = "events" /\ conn'.accepted /\ conn'.data # ""
\* the command line as the handler sees it
CmdLine(data) == strip_newline(read_buf(data))
IsProfileCmd(line) == Len(line) >= 8 /\ SubSeq(line, 1, 8) = "PROFILE "
ProfileArg(line) == SubSeq(line, 9, Len(line))
NameKnown(name) == \E i \in 1..Len(g_profiles) : strcasecmp_eq(g_profiles[i].name, name)
\* the step that completes a reload
ReloadDone == pc = "reload_run" /\ pc' = "poll"
\* the step that routes one axis slot of a motion sample
SampleRouted == pc = "slot" /\ slot' = slot + 1
ActiveName == g_profiles[g_active_profile + 1].name

\* C1: a PROFILE command whose name matches no stored profile, ignoring
\* case, is answered with ERR unknown profile '<name>' and leaves
\* active_index, the profile store and the reload flag as they were.
C1_UnknownProfile ==
  [][ LET line == CmdLine(conn'.data)
      IN (CmdHandled /\ IsProfileCmd(line) /\ ~NameKnown(ProfileArg(line)))
           => /\ strip_newline(conn'.response)
                   = "ERR unknown profile '" \o ProfileArg(line) \o "'"
              /\ UNCHANGED <<g_active_profile, g_profiles, g_reload>> ]_vars

\* C2: a PROFILE command whose name equals a stored profile's name ignoring
\* case makes that profile the active one, answers OK with the name as it
\* is stored, and leaves all three accumulators at zero for the next sample.
C2_KnownProfile ==
  [][ LET line == CmdLine(conn'.data)
      IN (CmdHandled /\ IsProfileCmd(line) /\ NameKnown(ProfileArg(line)))
           => /\ g_active_profile' \in 0..(Len(g_profiles) - 1)
              /\ strcasecmp_eq(g_profiles[g_active_profile' + 1].name, ProfileArg(line))
              /\ \A j \in 1..g_active_profile' :
                   ~strcasecmp_eq(g_profiles[j].name, ProfileArg(line))
              /\ conn'.response = "OK " \o g_profiles[g_active_profile' + 1].name \o "\n"
              /\ sacc' = [acc_x |-> 0, acc_y |-> 0, acc_z |-> 0]
              /\ UNCHANGED g_profiles ]_vars

\* PROFILE web was answered OK Web: the stored spelling, not the typed one
C2_Witness ==
  /\ pc = "events"
  /\ conn.data = "PROFILE web"
  /\ conn.response = "OK Web\n"
  /\ ActiveName = "Web"
  /\ g_active_profile # 0

\* the names of the profile entries of a document
DocNames(d) ==
  IF Doc(d) # NULL /\ json_has(Deref(Doc(d)), "profiles")
    THEN LET members == json_get(Deref(Doc(d)), "profiles").v
         IN { members[k][1] : k \in 1..Len(members) }
    ELSE {}

\* C3 as stated: after a reload the active profile has the name of the
\* profile active before, if the reloaded document has a profile of that
\* name; otherwise the active index is 0.
C3_ActiveByDocument ==
  [][ ReloadDone =>
        IF ActiveName \in DocNames(config_file')
          THEN g_profiles'[g_active_profile' + 1].name = ActiveName
          ELSE g_active_profile' = 0 ]_vars

\* C3 amended: after a reload the active profile is the first profile of
\* the rebuilt store whose stored name equals the name of the profile
\* active before, if the rebuilt store has one; otherwise the active index
\* is 0.
C3_ActiveByStore ==
  [][ ReloadDone =>
        IF \E i \in 1..Len(g_profiles') : g_profiles'[i].name = ActiveName
          THEN /\ g_profiles'[g_active_profile' + 1].name = ActiveName
               /\ \A j \in 1..g_active_profile' : g_profiles'[j].name # ActiveName
          ELSE g_active_profile' = 0 ]_vars

\* a reload has kept a profile other than "default" active
C3_Witness ==
  /\ pc = "poll"
  /\ iter.reloaded
  /\ g_active_profile # 0
  /\ ActiveName = "Web"

\* C4: the RELOAD command is answered OK reloading and only raises the
\* reload flag, the store and the active index being unchanged; the flag
\* stays raised until the loop clears it, which it does at the top of the
\* next iteration, just before it rebuilds the store, resolves the active
\* profile and resets the accumulators.
C4_ReloadCommand ==
  [][ /\ (CmdHandled /\ CmdLine(conn'.data) = "RELOAD")
           => /\ conn'.response = "OK reloading\n"
              /\ g_reload' = 1
              /\ UNCHANGED <<g_profiles, g_active_profile, config_file>>
      /\ (g_reload # 0 /\ g_reload' = 0) => (pc = "reload_clear" /\ pc' = "reload_run")
      /\ (pc = "if_reload" /\ pc' # pc /\ g_reload # 0) => pc' = "reload_clear"
      /\ (pc = "reload_run" /\ pc' # pc)
           => /\ pc' = "poll"
              /\ iter'.reloaded
              /\ sacc' = [acc_x |-> 0, acc_y |-> 0, acc_z |-> 0] ]_vars

\* RELOAD has just been answered and the flag is raised
C4_Witness ==
  /\ pc = "events"
  /\ conn.data = "RELOAD\n"
  /\ conn.response = "OK reloading\n"
  /\ g_reload = 1
  /\ g_active_profile # 0

\* C5 as stated: while the reload flag is raised no sample is routed.
C5_NoRoutingWhileRequested ==
  [][ g_reload # 0 => ~SampleRouted ]_vars

\* C5 amended: in an iteration whose test of the reload flag found it
\* raised, no sample is routed before the reload has completed.
C5_NoRoutingBeforeObservedReload ==
  [][ (SampleRouted /\ iter.saw) => iter.reloaded ]_vars

\* a sample is being routed in an iteration that began with a reload
C5_Witness ==
  /\ pc = "slot"
  /\ slot > 0
  /\ iter.saw
  /\ iter.reloaded

\* C6: while the loop runs the store holds between 1 and MAX_PROFILES
\* profiles and the first is named "default"; a document with more entries
\* loads its first entries and drops the rest.
C6_StoreBounds ==
  pc # "done" =>
    /\ Len(g_profiles) >= 1
    /\ Len(g_profiles) <= MAX_PROFILES
    /\ g_profiles[1].name = "default"
    /\ config_file = "big" =>
         /\ Len(g_profiles) = MAX_PROFILES
         /\ \A i \in 2..MAX_PROFILES : g_profiles[i].name = FillerName(i - 1)

\* the oversized document has been reloaded into a full store
C6_Witness ==
  /\ pc = "poll"
  /\ iter.reloaded
  /\ config_file = "big"
  /\ Len(g_profiles) = MAX_PROFILES

\* C7: from a remainder of 0, after every consume the remainder lies
\* strictly between -1 and 1, the integer returned is the value consumed
\* truncated toward zero, and the integers returned so far sum to within
\* less than 1 of the deltas added so far.
C7_Consume ==
  acc_hist.n > 0 =>
    /\ sacc.acc_x # INF
    /\ Abs(sacc.acc_x) < UNIT
    /\ acc_hist.ret = Trunc(acc_hist.total)
    /\ acc_hist.drift # INF
    /\ Abs(acc_hist.drift) < UNIT

\* the quotient a / b rounded down, for b # 0
FloorQuot(a, b) == IF b > 0 THEN a \div b ELSE (-a) \div (-b)

\* C8 as stated: two consecutive triggers are more than cooldown_ms apart,
\* and a window of duration T holds at most floor(T / cooldown_ms) + 1
\* triggers (here the window from one trigger to the next, which holds two).
C8_RateLimit ==
  \A i \in 2..Len(fired) :
    LET T == fired[i].t - fired[i - 1].t
        cooldown_ms == fired[i].cool
    IN /\ T > cooldown_ms
       /\ cooldown_ms # 0
       /\ 2 <= FloorQuot(T, cooldown_ms) + 1

\* the smallest cooldown_ms in force at the triggers i+1..j
MinCool(i, j) ==
  CHOOSE c \in { fired[k].cool : k \in (i + 1)..j } :
    \A k \in (i + 1)..j : c <= fired[k].cool

\* C8 amended: two consecutive triggers are more than the cooldown_ms of
\* the profile active at the later one apart; and when every cooldown_ms in
\* force in a window is at least 1, the window holds at most
\* floor(T / c) + 1 triggers, c being the smallest of them.
C8_RateLimitPositive ==
  /\ \A i \in 2..Len(fired) : fired[i].t - fired[i - 1].t > fired[i].cool
  /\ \A i \in 1..Len(fired) : \A j \in (i + 1)..Len(fired) :
       MinCool(i, j) >= 1
         => (j - i + 1) <= ((fired[j].t - fired[i].t) \div MinCool(i, j)) + 1

\* two consecutive triggers under different profiles, both with a positive
\* cooldown
C8_Witness ==
  /\ Len(fired) >= 2
  /\ fired[Len(fired)].cool >= 1
  /\ fired[Len(fired) - 1].cool >= 1
  /\ fired[Len(fired) - 1].cool # fired[Len(fired)].cool

\* C9: a sample on a slot mapped to desktop-switch fires exactly when
\* |value| > threshold and now - last_trigger_time > cooldown_ms; a fire
\* calls next for a positive and previous for a negative value and sets
\* last_trigger_time to now; otherwise nothing is called and
\* last_trigger_time is unchanged.
C9_GateStep ==
  [][ (SampleRouted /\ ActiveCfg.axis_map[slot] = ACT_DESKTOP_SWITCH)
        => LET value == ev.axes[slot]
               fire == /\ Abs(value) > ActiveCfg.dswitch_threshold
                       /\ clock - last_dswitch > ActiveCfg.dswitch_cooldown_ms
           IN IF fire
                THEN /\ value > 0 => kwin_req' = "nextDesktop"
                     /\ value < 0 => kwin_req' = "previousDesktop"
                     /\ last_dswitch' = clock
                ELSE /\ kwin_req' = ""
                     /\ last_dswitch' = last_dswitch
                     /\ fired' = fired ]_vars

\* a second trigger has just fired, in the direction "previous"
C9_Witness ==
  /\ kwin_req = "previousDesktop"
  /\ Len(fired) = 2
  /\ last_dswitch = clock
  /\ last_dswitch > 0

\* the entries of a multi-profile document other than "default", in order
NamedEntries(d) ==
  LET members == json_get(Deref(Doc(d)), "profiles").v
      Keep(m) == m[1] # "default"
  IN SelectSeq(members, Keep)

IsMulti(d) == Doc(d) # NULL /\ json_has(Deref(Doc(d)), "profiles")

\* the values a profile object specifies, and whether they are well formed
IntOK(val) == val.t = "int"
IntGiven(val) == val.v
DblOK(val) == val.t \in {"int", "double"}
DblGiven(val) == IF val.t = "int" THEN val.v * UNIT ELSE val.v
BoolOK(val) == val.t = "boolean"
BoolGiven(val) == IF val.v THEN 1 ELSE 0
AxisOK(val) ==
  val.t = "string" /\ val.v \in {"none", "scroll_h", "scroll_v", "zoom", "desktop_switch"}
AxisGiven(val) ==
  CASE val.v = "scroll_h" -> ACT_SCROLL_H
    [] val.v = "scroll_v" -> ACT_SCROLL_V
    [] val.v = "zoom" -> ACT_ZOOM
    [] val.v = "desktop_switch" -> ACT_DESKTOP_SWITCH
    [] OTHER -> ACT_NONE
BtnOK(val) == val.t = "string" /\ val.v \in {"none", "overview", "show_desktop"}
BtnGiven(val) ==
  CASE val.v = "overview" -> BTNACT_OVERVIEW
    [] val.v = "show_desktop" -> BTNACT_SHOW_DESKTOP
    [] OTHER -> BTNACT_NONE

\* the field `mine` agrees with the entry obj: it is the value given under
\* key when that is well formed, dflt when the key is absent and, if
\* `tolerant`, dflt when the value is malformed
FieldAgrees(obj, key, OK(_), Given(_), mine, dflt, tolerant) ==
  IF ~json_has(obj, key) THEN mine = dflt
  ELSE IF OK(json_get(obj, key)) THEN mine = Given(json_get(obj, key))
  ELSE tolerant => mine = dflt

\* every field of cfg agrees with the entry obj over the defaults d0
EntryAgrees(obj, cfg, d0, tolerant) ==
  LET amap == IF json_has(obj, "axis_mapping")
                THEN json_get(obj, "axis_mapping") ELSE JObj(<< >>)
      bmap == IF json_has(obj, "button_mapping")
                THEN json_get(obj, "button_mapping") ELSE JObj(<< >>)
  IN /\ FieldAgrees(obj, "deadzone", IntOK, IntGiven, cfg.deadzone, d0.deadzone, tolerant)
     /\ FieldAgrees(obj, "scroll_speed", DblOK, DblGiven,
                    cfg.scroll_speed, d0.scroll_speed, tolerant)
     /\ FieldAgrees(obj, "scroll_exponent", DblOK, DblGiven,
                    cfg.scroll_exponent, d0.scroll_exponent, tolerant)
     /\ FieldAgrees(obj, "zoom_speed", DblOK, DblGiven,
                    cfg.zoom_speed, d0.zoom_speed, tolerant)
     /\ FieldAgrees(obj, "sensitivity", DblOK, DblGiven,
                    cfg.sensitivity, d0.sensitivity, tolerant)
     /\ FieldAgrees(obj, "desktop_switch_threshold", IntOK, IntGiven,
                    cfg.dswitch_threshold, d0.dswitch_threshold, tolerant)
     /\ FieldAgrees(obj, "desktop_switch_cooldown_ms", IntOK, IntGiven,
                    cfg.dswitch_cooldown_ms, d0.dswitch_cooldown_ms, tolerant)
     /\ FieldAgrees(obj, "invert_scroll_x", BoolOK, BoolGiven,
                    cfg.invert_scroll_x, d0.invert_scroll_x, tolerant)
     /\ FieldAgrees(obj, "invert_scroll_y", BoolOK, BoolGiven,
                    cfg.invert_scroll_y, d0.invert_scroll_y, tolerant)
     /\ \A a \in Axes :
          FieldAgrees(amap, AxisKey(a), AxisOK, AxisGiven,
                      cfg.axis_map[a], d0.axis_map[a], tolerant)
     /\ \A b \in Buttons :
          FieldAgrees(bmap, ToString(b), BtnOK, BtnGiven,
                      cfg.btn_map[b], d0.btn_map[b], tolerant)

\* C10: each stored profile other than "default" has, for every scalar,
\* axis slot and button index, the value its document entry specifies, and
\* profile 0's value where the entry specifies none.
C10_Inheritance ==
  (pc # "done" /\ IsMulti(config_file)) =>
    \A i \in 2..Len(g_profiles) :
      EntryAgrees(NamedEntries(config_file)[i - 1][2], g_profiles[i].cfg,
                  g_profiles[1].cfg, FALSE)

\* the document entry of stored profile i (1-based); an empty object when
\* the document has none for profile 0
EntryOf(d, i) ==
  IF i > 1 THEN NamedEntries(d)[i - 1][2]
  ELSE IF ~IsMulti(d) THEN Deref(Doc(d))
  ELSE IF json_has(json_get(Deref(Doc(d)), "profiles"), "default")
    THEN json_get(json_get(Deref(Doc(d)), "profiles"), "default")
  ELSE JObj(<< >>)

\* some scalar, axis slot or button of the entry has a malformed value
HasMalformed(obj) ==
  LET Bad(o, key, OK(_)) == json_has(o, key) /\ ~OK(json_get(o, key))
      amap == IF json_has(obj, "axis_mapping")
                THEN json_get(obj, "axis_mapping") ELSE JObj(<< >>)
      bmap == IF json_has(obj, "button_mapping")
                THEN json_get(obj, "button_mapping") ELSE JObj(<< >>)
  IN \/ Bad(obj, "deadzone", IntOK)
     \/ Bad(obj, "desktop_switch_threshold", IntOK)
     \/ Bad(obj, "desktop_switch_cooldown_ms", IntOK)
     \/ Bad(obj, "scroll_speed", DblOK)
     \/ Bad(obj, "scroll_exponent", DblOK)
     \/ Bad(obj, "zoom_speed", DblOK)
     \/ Bad(obj, "sensitivity", DblOK)
     \/ Bad(obj, "invert_scroll_x", BoolOK)
     \/ Bad(obj, "invert_scroll_y", BoolOK)
     \/ \E a \in Axes : Bad(amap, AxisKey(a), AxisOK)
     \/ \E b \in Buttons : Bad(bmap, ToString(b), BtnOK)

\* C11: in a profile whose entry gives some field a malformed value, that
\* field has the value it would have were it omitted (profile 0's for a
\* named profile, the built-in default for profile 0) and every other
\* field is the value given, or the inherited one where none is given.
C11_ParseTolerance ==
  (pc # "done" /\ Doc(config_file) # NULL) =>
    \A i \in 1..Len(g_profiles) :
      HasMalformed(EntryOf(config_file, i))
        => EntryAgrees(EntryOf(config_file, i), g_profiles[i].cfg,
                       IF i = 1 THEN config_defaults ELSE g_profiles[1].cfg, TRUE)

\* the built-in configuration
BuiltIn ==
  [deadzone |-> DEFAULT_DEADZONE,
   scroll_speed |-> DEFAULT_SCROLL_SPEED * UNIT,
   scroll_exponent |-> DEFAULT_SCROLL_EXP * UNIT,
   zoom_speed |-> DEFAULT_ZOOM_SPEED * UNIT,
   dswitch_threshold |-> DEFAULT_DSWITCH_THRESH,
   dswitch_cooldown_ms |-> DEFAULT_DSWITCH_COOL_MS,
   axis_map |-> (0 :> ACT_SCROLL_H @@ 1 :> ACT_SCROLL_V @@ 2 :> ACT_ZOOM
                 @@ 3 :> ACT_NONE @@ 4 :> ACT_DESKTOP_SWITCH @@ 5 :> ACT_NONE),
   btn_map |-> [b \in 0..15 |-> IF b = 0 THEN BTNACT_OVERVIEW
                                ELSE IF b = 1 THEN BTNACT_SHOW_DESKTOP
                                ELSE BTNACT_NONE],
   invert_scroll_x |-> 0,
   invert_scroll_y |-> 0,
   sensitivity |-> DEFAULT_SENSITIVITY * UNIT]

\* C12: whenever the document last loaded was missing or unreadable, the
\* store is the single profile "default" with the built-in configuration
\* and active index 0; and a reload of such a document leaves the loop
\* running, on its way to poll.
C12_MissingDocument ==
  /\ [](  (pc # "done" /\ config_file = "missing")
            => /\ g_profiles = << [name |-> "default", cfg |-> BuiltIn] >>
               /\ g_active_profile = 0 )
  /\ [][ (ReloadDone /\ config_file' = "missing")
           => /\ pc' = "poll"
              /\ g_running' = g_running
              /\ Len(g_profiles') = 1 ]_vars

\* a reload has just read a missing document and the loop is about to poll
C12_Witness ==
  /\ pc = "poll"
  /\ iter.reloaded
  /\ config_file = "missing"
  /\ Len(g_profiles) = 1
  /\ conn.accepted = FALSE
  /\ g_running = 1

\* the names of the store from entry i on, each preceded by one space
RECURSIVE NameList(_, _)
NameList(profiles, i) ==
  IF i > Len(profiles) THEN ""
  ELSE " " \o profiles[i].name \o NameList(profiles, i + 1)

\* the complete STATUS report of the current store, without its line end
StatusReport == "ACTIVE " \o ActiveName \o "\nPROFILES" \o NameList(g_profiles, 1)
StatusHandled == CmdHandled /\ CmdLine(conn'.data) = "STATUS"
IsPrefix(s, t) == Len(s) <= Len(t) /\ s = SubSeq(t, 1, Len(s))

\* C13 as stated: STATUS is answered with the active name and the names of
\* all stored profiles, and changes nothing.
C13_StatusComplete ==
  [][ StatusHandled
        => /\ strip_newline(conn'.response) = StatusReport
           /\ UNCHANGED <<g_active_profile, g_profiles, g_reload>> ]_vars

\* C13: STATUS changes neither active_index, the store nor the reload
\* flag; its answer is the complete report closed by a newline when that
\* fits the 255 bytes of the response buffer, and otherwise the report cut
\* off within its last two bytes.
C13_StatusFitting ==
  [][ StatusHandled
        => /\ UNCHANGED <<g_active_profile, g_profiles, g_reload>>
           /\ IF Len(StatusReport) + 1 <= CMD_BUF_SIZE - 1
                THEN conn'.response = StatusReport \o "\n"
                ELSE /\ IsPrefix(strip_newline(conn'.response), StatusReport)
                     /\ Len(strip_newline(conn'.response)) >= CMD_BUF_SIZE - 2 ]_vars

\* STATUS was answered while the second of three profiles was active
C13_Witness ==
  /\ pc = "events"
  /\ conn.data = "STATUS\n"
  /\ Len(g_profiles) = 3
  /\ g_active_profile = 1
  /\ conn.response = "ACTIVE " \o ActiveName \o "\nPROFILES "
                       \o g_profiles[1].name \o " " \o g_profiles[2].name
                       \o " " \o g_profiles[3].name \o "\n"

\* C14: every response written to a client is at most 255 bytes long and
\* ends with a newline.
C14_ResponseBounded ==
  (conn.accepted /\ conn.data # "")
    => /\ Len(conn.response) <= CMD_BUF_SIZE - 1
       /\ Len(conn.response) >= 1
       /\ CharAt(conn.response, Len(conn.response)) = "\n"

IsUnknownCmd(line) == ~IsProfileCmd(line) /\ line \notin {"RELOAD", "STATUS"}

\* C15: a command line that is not PROFILE <name>, RELOAD or STATUS is
\* answered ERR unknown command, changes neither active_index, the store
\* nor the reload flag, and the loop goes on to the device events.
C15_UnknownCommand ==
  [][ (CmdHandled /\ IsUnknownCmd(CmdLine(conn'.data)))
        => /\ conn'.response = "ERR unknown command\n"
           /\ UNCHANGED <<g_active_profile, g_profiles, g_reload, g_running>>
           /\ pc' = "events" ]_vars

\* a lower-case status was refused while a named profile was active
C15_Witness ==
  /\ pc = "events"
  /\ conn.data = "status\n"
  /\ conn.response = "ERR unknown command\n"
  /\ g_active_profile # 0
  /\ g_reload = 0

\* the loop leaves for the cleanup
LoopExits == pc # "done" /\ pc' = "done"

\* C16: the loop exits only from the test of the running flag at the top of
\* an iteration (or on a failed poll), never out of command handling,
\* reloading or sample routing; when the test finds the flag cleared the
\* loop exits even with a reload pending; and after the exit nothing more
\* happens: no sample is routed, no client served, no reload performed.
C16_Shutdown ==
  [][ /\ LoopExits => (pc = "while" /\ g_running = 0) \/ pc = "poll"
      /\ (pc = "while" /\ pc' # pc) => (pc' = "done" <=> g_running = 0)
      /\ (pc = "while" /\ g_running = 0 /\ pc' # pc)
           => UNCHANGED <<g_reload, g_active_profile, config_file, sacc>>
      /\ (g_running = 0 /\ pc \in {"cmd", "slot", "drain"} /\ pc' # pc)
           => pc' \in {"events", "slot", "drain"}
      /\ pc = "done" => UNCHANGED vars ]_vars

\* the loop has exited although a reload was still requested
C16_Witness ==
  /\ pc = "done"
  /\ g_running = 0
  /\ g_reload = 1
  /\ iter.reloaded = FALSE

\* a step of a handler: a flag changes while the loop stands still
SignalDelivered ==
  /\ pc' = pc
  /\ slot' = slot
  /\ g_running' # g_running \/ g_reload' # g_reload

\* C17: a delivered signal changes its own flag only (the running flag is
\* cleared, or the reload flag is raised) and leaves the store, the active
\* index, the accumulators and the cooldown timestamp alone; the running
\* flag is changed by nothing else; the store and the document it was read
\* from change only in the reload step of the loop body or in the cleanup.
C17_HandlersOnlyFlags ==
  [][ /\ SignalDelivered
           => /\ \/ g_running' = 0 /\ g_reload' = g_reload
                 \/ g_reload' = 1 /\ g_running' = g_running
              /\ UNCHANGED <<g_profiles, g_active_profile, sacc, last_dswitch,
                             desktop_shown, config_file, fds, ev, clock, iter>>
      /\ g_running' # g_running => SignalDelivered
      /\ (g_profiles' # g_profiles \/ config_file' # config_file)
           => pc = "reload_run" \/ LoopExits ]_vars

\* both signals have arrived while a sample was being routed
C17_Witness ==
  /\ pc = "slot"
  /\ slot > 0
  /\ g_running = 0
  /\ g_reload = 1
  /\ sacc # scroll_acc_reset
  /\ g_active_profile # 0

\* x < 0 and x > 0 on doubles: both are false of NaN
DblNegative(x) == x # NAN /\ x < 0
DblPositive(x) == x # NAN /\ x > 0
\* |x| <= |y| on doubles
DblAbsLeq(x, y) == x # NAN /\ y # NAN /\ Abs(x) <= Abs(y)

\* two calls one after the other with the same configuration, the first
\* with the smaller magnitude, both outside the deadzone and of equal sign
CurvePair ==
  /\ shaped.n > 0
  /\ shaped'.deadzone = shaped.deadzone
  /\ shaped'.exponent = shaped.exponent
  /\ shaped'.scale = shaped.scale
  /\ shaped.exponent > 0
  /\ shaped.deadzone <= Abs(shaped.raw)
  /\ Abs(shaped.raw) < Abs(shaped'.raw)
  /\ Abs(shaped'.raw) <= MAX_RAW
  /\ Sgn(shaped.raw) = Sgn(shaped'.raw)

\* C18: the curve returns exactly 0 inside the deadzone; outside it the
\* magnitude of the result does not decrease as the magnitude of raw grows
\* (exponent > 0); and with a positive scale the result is never negative
\* for raw >= 0 and never positive for raw <= 0.  For every raw of the
\* device range and every deadzone, zero and negative ones included.
C18_Curve ==
  /\ [](shaped.n > 0 =>
          /\ Abs(shaped.raw) < shaped.deadzone => shaped.out = 0
          /\ shaped.scale > 0 =>
               /\ shaped.raw >= 0 => ~DblNegative(shaped.out)
               /\ shaped.raw <= 0 => ~DblPositive(shaped.out))
  /\ [][ CurvePair => DblAbsLeq(shaped.out, shaped'.out) ]_vars

\* no motion sample is being processed
BetweenSamples == pc \notin {"slot", "drain", "done"}
RemainderSmall(acc) == acc \notin {INF, NAN} /\ Abs(acc) < UNIT

\* C19: between any two samples each of the three accumulators lies
\* strictly within (-1, 1), whether or not the scroll/zoom emitter was
\* available at startup.
C19_DrainedRemainders ==
  BetweenSamples => /\ RemainderSmall(sacc.acc_x)
                    /\ RemainderSmall(sacc.acc_y)
                    /\ RemainderSmall(sacc.acc_z)

\* the step that ends the processing of a sample
SampleDrained == pc = "drain" /\ pc' # pc

\* C20: nothing is emitted while the six slots of a sample are routed; a
\* slot mapped to zoom adds its contribution to the zoom accumulator and
\* leaves the other two alone; the drain is reached only after slot 5, and
\* it emits, once, the whole numbers of the three accumulated sums.
C20_OneEmissionPerSample ==
  /\ [](pc = "drain" => slot = NUM_AXES)
  /\ [][ /\ SampleRouted
              => /\ uinput_ev' = NoEmit
                 /\ slot < NUM_AXES
                 /\ pc' = "drain" <=> slot = NUM_AXES - 1
                 /\ ActiveCfg.axis_map[slot] = ACT_ZOOM
                      => sacc' = [sacc EXCEPT !.acc_z =
                                    @ + DblMul(apply_curve(ev.axes[slot],
                                                 ActiveCfg.deadzone,
                                                 ActiveCfg.scroll_exponent,
                                                 ActiveCfg.zoom_speed),
                                               ActiveCfg.sensitivity)]
         /\ uinput_ev' # NoEmit => SampleDrained
         /\ SampleDrained
              => /\ pc' = "events"
                 /\ g_uinput_fd >= 0
                      => uinput_ev' = <<Trunc(sacc.acc_x), Trunc(sacc.acc_y),
                                        Trunc(sacc.acc_z)>>
         /\ (pc' = "slot" /\ pc # "slot") => (pc = "events" /\ slot' = 0) ]_vars

\* two slots mapped to zoom were fully deflected, each worth 2 steps, and
\* the drain has emitted their sum in one event
C20_Witness ==
  /\ pc = "events"
  /\ config_file = "flat"
  /\ ev = Motion(0, 0, MAX_RAW, 0, 0, MAX_RAW)
  /\ ActiveCfg.axis_map[2] = ACT_ZOOM
  /\ ActiveCfg.axis_map[5] = ACT_ZOOM
  /\ uinput_ev = <<0, 0, 2 * DEFAULT_ZOOM_SPEED>>
  /\ sacc = scroll_acc_reset

\* the step of a wake-up in which poll() reported the command socket ready
ListenerServed == pc = "cmd" /\ pc' # pc /\ fds.cmd /\ cmd_fd >= 0

\* C21: in a wake-up with the listener ready the loop serves one client
\* (one accept, one read, a response exactly when a command was read)
\* before it turns to the device events, routes nothing in that step, and
\* leaves all three accumulators at zero whatever was read; the next
\* client is served only after the next poll.
C21_OneClientPerWakeup ==
  [][ /\ ListenerServed
           => /\ pc' = "events"
              /\ sacc' = [acc_x |-> 0, acc_y |-> 0, acc_z |-> 0]
              /\ conn'.response # "" => (conn'.accepted /\ conn'.data # "")
              /\ (conn'.accepted /\ conn'.data # "") => conn'.response # ""
              /\ uinput_ev' = NoEmit /\ kwin_req' = "" /\ dbus_sent' = ""
              /\ UNCHANGED <<ev, slot, last_dswitch, desktop_shown>>
      /\ (conn'.accepted /\ pc' # pc) => ListenerServed
      /\ (pc' = "cmd" /\ pc # "cmd") => pc = "poll"
      /\ (pc = "poll" /\ pc' \notin {"poll", "while", "done"}) => pc' = "cmd"
      /\ (pc' = "slot" /\ pc # "slot") => pc = "events" ]_vars

\* after an earlier motion sample, STATUS has just been answered in a
\* wake-up that also has device events waiting; the accumulators are zero
C21_Witness ==
  /\ pc = "events"
  /\ conn.accepted
  /\ conn.data = "STATUS\n"
  /\ conn.response # ""
  /\ ev.type = "motion"
  /\ fds.dev
  /\ sacc = scroll_acc_reset

\* the step that routes one button event
ButtonRouted == pc = "events" /\ pc' \in {"events", "crash"} /\ ev'.type = "button"
ButtonIgnored(e) == e.press = 0 \/ e.bnum < 0 \/ e.bnum > 15

\* C22: a release and a press with an index outside 0..15 request no
\* desktop action and change nothing; a press of a button mapped to
\* show-desktop inverts the shown flag once and, on the session bus when
\* there is one, sends showDesktop with the new value; the flag starts at
\* 0 and nothing else changes it, so the presses send true, false, true, ...
\* across profile switches, client connections and reloads.
C22_ButtonRouting ==
  /\ [](desktop_shown \in {0, 1})
  /\ [][ /\ ButtonRouted
              => IF ButtonIgnored(ev')
                   THEN /\ kwin_req' = "" /\ dbus_sent' = ""
                        /\ pc' = "events"
                        /\ UNCHANGED <<desktop_shown, sacc, last_dswitch, g_profiles,
                                       g_active_profile, g_reload, g_running>>
                   ELSE IF ActiveCfg.btn_map[ev'.bnum] = BTNACT_SHOW_DESKTOP
                          THEN /\ desktop_shown' = 1 - desktop_shown
                               /\ g_dbus => dbus_sent' =
                                    (IF desktop_shown' = 1 THEN "showDesktop true"
                                                           ELSE "showDesktop false")
                          ELSE UNCHANGED desktop_shown
         /\ desktop_shown' # desktop_shown => ButtonRouted ]_vars

\* under the profile Web, after a reload, button 0 has sent showDesktop
\* false: the flag raised by an earlier press was still raised
C22_Witness ==
  /\ pc = "events"
  /\ ev = Button(1, 0)
  /\ g_dbus
  /\ g_active_profile = 1
  /\ iter.reloaded
  /\ dbus_sent = "showDesktop false"
  /\ desktop_shown = 0

\* C23: without the scroll/zoom emitter nothing is emitted, without the
\* desktop-action backend no message is handed to it, and the process
\* keeps running.
C23_DegradedCollaborators ==
  /\ g_uinput_fd < 0 => uinput_ev = NoEmit
  /\ ~g_dbus => dbus_sent = ""
  /\ pc # "crash"

\* the step in which a desktop-switch slot fires
TriggerFired ==
  /\ SampleRouted
  /\ ActiveCfg.axis_map[slot] = ACT_DESKTOP_SWITCH
  /\ Abs(ev.axes[slot]) > ActiveCfg.dswitch_threshold
  /\ clock - last_dswitch > ActiveCfg.dswitch_cooldown_ms

\* C24: the cooldown timestamp changes only in a step in which a
\* desktop-switch slot fires, and then to the time of that step; a served
\* client, a PROFILE switch, a reload and every reset of the accumulators
\* leave it as it is; so a slot fires under the profile active now only
\* when more than that profile's cooldown has passed since the last
\* trigger, under whichever profile that one fired.
C24_CooldownTimestamp ==
  [][ /\ last_dswitch' # last_dswitch => (TriggerFired /\ last_dswitch' = clock)
      /\ (ListenerServed \/ ReloadDone \/ g_active_profile' # g_active_profile
            \/ (sacc' = scroll_acc_reset /\ sacc # scroll_acc_reset))
           => last_dswitch' = last_dswitch
      /\ (SampleRouted /\ kwin_req' # "" /\ Len(fired) > 0)
           => /\ last_dswitch = fired[Len(fired)].t
              /\ clock - fired[Len(fired)].t > ActiveCfg.dswitch_cooldown_ms ]_vars

\* a sample over the threshold has just been refused under the profile
\* Web, after a reload, because of a trigger fired under the profile default
C24_Witness ==
  /\ pc = "slot"
  /\ slot = 1
  /\ g_active_profile = 1
  /\ ActiveCfg.axis_map[0] = ACT_DESKTOP_SWITCH
  /\ Len(fired) = 1
  /\ fired[1].cool = g_profiles[1].cfg.dswitch_cooldown_ms
  /\ fired[1].cool # ActiveCfg.dswitch_cooldown_ms
  /\ last_dswitch = fired[1].t
  /\ last_dswitch > 0
  /\ clock - last_dswitch <= ActiveCfg.dswitch_cooldown_ms
  /\ kwin_req = ""
  /\ iter.reloaded

\* C25: the stored names are pairwise distinct under case-insensitive
\* comparison, and the lookup of a stored profile's own name gives that
\* profile's index.
C25_NamesDistinct ==
  pc # "done" =>
    /\ \A i \in 1..Len(g_profiles) : \A j \in (i + 1)..Len(g_profiles) :
         ~strcasecmp_eq(g_profiles[i].name, g_profiles[j].name)
    /\ \A i \in 1..Len(g_profiles) :
         find_profile(g_profiles, g_profiles[i].name) = i - 1

ActiveInRange == g_active_profile >= 0 /\ g_active_profile < g_profile_count

\* C26: as long as the loop runs, and so whenever a sample is routed or a
\* STATUS response is built, 0 <= active_index < profile_count; a reload
\* leaves the index within the store it has just built.
C26_ActiveInRange ==
  /\ [](pc # "done" => ActiveInRange)
  /\ [][ /\ (SampleRouted \/ StatusHandled) => ActiveInRange
         /\ ReloadDone => (g_active_profile' >= 0 /\ g_active_profile' < Len(g_profiles')) ]_vars

\* a reload has left a single profile, and a sample is being routed
C26_Witness ==
  /\ pc = "slot"
  /\ iter.reloaded
  /\ Len(g_profiles) = 1
  /\ config_file = "missing"
  /\ g_active_profile = 0

\* the flag has been cleared and the load is about to begin
ReloadStarting == pc = "reload_run" /\ g_reload = 0
ReloadCompleted == pc = "poll" /\ iter.reloaded

\* C27: whenever the reload flag is raised, at whatever point of the loop,
\* the loop eventually clears it and begins a load after that, and every
\* load that is about to begin is completed.
C27_NoReloadLost ==
  /\ (g_reload = 1) ~> ReloadStarting
  /\ (pc = "reload_run") ~> ReloadCompleted

\* the signal has arrived while a reload was in progress: the flag is
\* raised again after it was cleared and before the load is done
C27_Witness ==
  /\ pc = "reload_run"
  /\ g_reload = 1
  /\ g_running = 1

====
